---------------------------- MODULE Spec2Model ----------------------------
(***************************************************************************)
(* CiteMigrate (src/citemigrate.py): the conversion engine that replaces   *)
(* Citavi citation placeholders of a .docx package by Zotero field codes.  *)
(*                                                                         *)
(* Text is modelled as sequences of atoms.  A DOI or an ISBN is a sequence *)
(* of characters; a name, a title, a date or a display text is a sequence  *)
(* of whitespace-separated words, punctuation marks being words of their   *)
(* own.  lower(), strip() and the regular expressions of the source are    *)
(* operators over these sequences.                                         *)
(***************************************************************************)
EXTENDS Integers, Sequences, FiniteSets, TLC

VARIABLES
    \* ZoteroMatcher: self._all_items and self._cache
    items, cache,
    \* the calls of find_match so far: how many, how many of them went on to
    \* scan the index, and the first result returned for each record
    calls, scans, first,
    \* the last call of find_match: its record, its result, whether it raised,
    \* whether the cache answered it, whether the record had been answered
    \* before, and the number of scans before it
    lastCi, lastRes, lastRaised, lastHit, lastRepeat, lastScans,
    \* the title signal of find_match on one record title and entry title
    tTitle, iTitle, tScore, tDone,
    \* a call of find_match_by_display_text: its text, the entries returned,
    \* and what its steps made of each group of the text
    dText, dMatches, dGroups, dDone,
    \* a call of verify_document_integrity: the fldCharType of the tree's
    \* w:fldChar elements in document order, whether the root has a w:body,
    \* for each w:sdt whether it has a w:sdtContent, and the issues returned
    vMarkers, vBody, vSdts, vIssues, vDone,
    \* a call of run_conversion: the remote library and whether it answers;
    \* the input archive (its member names and the nodes of its parts); the
    \* position of the call and the part it is at; the files of the
    \* extraction directory and the nodes of its parts; stats; the exception
    \* that left the call; the members written to the output archive, in
    \* order, and the nodes of the parts as written
    remote, remoteOk, archive, pc, partAt, files, work, stats, err, out, outParts,
    \* calls of add_zotero_bibl_at_end on one root: whether the root has a
    \* w:body, its nodes at first, before the last call and now, and what the
    \* calls returned
    bBody, bFirst, bPrev, bNodes, bReturns,
    \* a call of decode_citavi_payload: whether the w:sdt has a w:sdtContent,
    \* the texts of its w:instrText elements, the value they were made from
    \* (if they were made from one), and what the call returned
    eContent, eRuns, eEncoded, eValue, eResult, eDone,
    \* a run of ConversionWorker or BatchConversionWorker: which of the two,
    \* its documents, whether it verifies, its position and the document it
    \* is at, the matchers made and the fetches of the index begun so far,
    \* all_stats, and what became of each document
    kMode, kDocs, kVerify, kPc, kIdx, kMatchers, kFetches, kAllStats, kOutcomes, kProgress,
    \* a failure with a credential configured: the credential, the text of
    \* the exception, the messages logged and the texts sent with the error
    \* signal
    lKey, lPc, lLog, lSignal,
    \* a call of verify_conversion: the original and the converted package,
    \* the results returned and the outcome logged
    cOriginal, cConverted, cResults, cPc,
    \* the end of process_xml_file for each part and the repacking: the
    \* final tree of each part and whether it was modified, the part the run
    \* is at, and what was verified and written, in order
    wTrees, wModified, wAt, wEvents,
    \* a placeholder's decoded payload and display text, the records made of
    \* the payload, and the records handed to find_match
    xPayload, xDisplay, xInfos, xPassed, xPc,
    \* a call of create_zotero_field_xml (its arguments and the runs returned), and
    \* a body whose placeholders are replaced: its elements in document order, and
    \* the issues verify_document_integrity reports on it (fFirst: the
    \* body before the first replacement)
    fJson, fDisplay, fRuns, fFirst, fNodes, fIssues, fPc,
    \* a batch worker and the window that stops it: the number of documents, how
    \* many were started, whether one is being converted, the state of the thread,
    \* the state of _cleanup_worker, the time it has waited, and the documents
    \* started after it was called
    nTotal, nIdx, nBusy, nWorker, nRequest, nClock, nAfter,
    \* _get_all_items of one matcher: the remote library, self._all_items, start,
    \* the pages received, the offsets requested, the position of the call, the
    \* requests of the call under way and what the calls returned
    gRemote, gAllItems, gStart, gPages, gRequests, gPc, gDuring, gReturns

matcherVars == <<items, cache, calls, scans, first,
                 lastCi, lastRes, lastRaised, lastHit, lastRepeat, lastScans>>
titleVars == <<tTitle, iTitle, tScore, tDone>>
displayVars == <<dText, dMatches, dGroups, dDone>>
verifyVars == <<vMarkers, vBody, vSdts, vIssues, vDone>>
convVars == <<remote, remoteOk, archive, pc, partAt, files, work, stats, err, out, outParts>>
biblVars == <<bBody, bFirst, bPrev, bNodes, bReturns>>
decodeVars == <<eContent, eRuns, eEncoded, eValue, eResult, eDone>>
batchVars == <<kMode, kDocs, kVerify, kPc, kIdx, kMatchers, kFetches, kAllStats, kOutcomes,
               kProgress>>
logVars == <<lKey, lPc, lLog, lSignal>>
checkVars == <<cOriginal, cConverted, cResults, cPc>>
writeVars == <<wTrees, wModified, wAt, wEvents>>
extractVars == <<xPayload, xDisplay, xInfos, xPassed, xPc>>
fieldVars == <<fJson, fDisplay, fRuns, fFirst, fNodes, fIssues, fPc>>
cancelVars == <<nTotal, nIdx, nBusy, nWorker, nRequest, nClock, nAfter>>
fetchVars == <<gRemote, gAllItems, gStart, gPages, gRequests, gPc, gDuring, gReturns>>
tailVars == <<writeVars, extractVars, fieldVars, cancelVars, fetchVars>>
moreVars == <<biblVars, decodeVars, batchVars, logVars, checkVars, tailVars>>
vars == <<matcherVars, titleVars, displayVars, verifyVars, convVars, moreVars>>

(***************************************************************************)
(* Strings                                                                 *)
(***************************************************************************)

\* The one element of a set of one element.  {F(x) : x \in {e}} is F at the
\* value of e, with e evaluated once.
Only(S) == CHOOSE x \in S : TRUE

\* The value None, which is no string of the vocabulary.
None == <<"<None>">>

\* str.lower() on the atoms of the vocabulary: every atom that has an upper
\* case letter, with its lower-case form.
LowerMap ==
    [w \in {"A", "B", "X", "Smith", "Jones", "World", "Health", "Organization", "Goldsmith",
            "Advances", "Molecular", "Biology", "Chemistry", "Und", "Et", "And",
            "Al.", "See", "Vgl.", "J", "J.", "Seeger", "Ger"} |->
        CASE w = "A" -> "a"
          [] w = "B" -> "b"
          [] w = "X" -> "x"
          [] w = "Smith" -> "smith"
          [] w = "Jones" -> "jones"
          [] w = "World" -> "world"
          [] w = "Health" -> "health"
          [] w = "Organization" -> "organization"
          [] w = "Goldsmith" -> "goldsmith"
          [] w = "Advances" -> "advances"
          [] w = "Molecular" -> "molecular"
          [] w = "Biology" -> "biology"
          [] w = "Chemistry" -> "chemistry"
          [] w = "Und" -> "und"
          [] w = "Et" -> "et"
          [] w = "And" -> "and"
          [] w = "Al." -> "al."
          [] w = "See" -> "see"
          [] w = "Vgl." -> "vgl."
          [] w = "J" -> "j"
          [] w = "J." -> "j."
          [] w = "Seeger" -> "seeger"
          [] w = "Ger" -> "ger"]

LowerAtom(w) == IF w \in DOMAIN LowerMap THEN LowerMap[w] ELSE w

\* str.lower()
Lower(s) == [i \in 1..Len(s) |-> LowerAtom(s[i])]

IsSpace(c) == c = " "

RECURSIVE LStrip(_)
LStrip(s) == IF s # <<>> /\ IsSpace(Head(s)) THEN LStrip(Tail(s)) ELSE s

RECURSIVE RStrip(_)
RStrip(s) ==
    IF s # <<>> /\ IsSpace(s[Len(s)]) THEN RStrip(SubSeq(s, 1, Len(s) - 1)) ELSE s

\* str.strip() of a character string
Strip(s) == RStrip(LStrip(s))

\* re.sub(r'[\s-]', '', s)
RECURSIVE StripIsbn(_)
StripIsbn(s) ==
    IF s = <<>> THEN <<>>
    ELSE IF IsSpace(Head(s)) \/ Head(s) = "-" THEN StripIsbn(Tail(s))
    ELSE <<Head(s)>> \o StripIsbn(Tail(s))

\* set(s.split()) of a string of words
WordSet(s) == {s[i] : i \in 1..Len(s)}

\* a in b for two atoms: b holds the characters of a in a row
AtomContains(b, a) ==
    \/ a = b
    \/ <<a, b>> \in {<<"smith", "goldsmith">>, <<"ger", "seeger">>}

\* a in b for two strings of words (a non-empty): the words of a are found
\* in a row in b; the first word of a may be the end of a longer word of b
StrContains(b, a) ==
    \E i \in 1..(Len(b) - Len(a) + 1) :
        /\ AtomContains(b[i], a[1])
        /\ \A k \in 2..Len(a) : b[i + k - 1] = a[k]

(***************************************************************************)
(* ZoteroMatcher.find_match                                                *)
(*                                                                         *)
(* A citation record is a dict: `has` is its set of keys.  A library entry *)
(* is named by its position in the index; 0 is None.                       *)
(***************************************************************************)

\* An author of a record, and a record with the keys `has`.
Author(family) == [family |-> family, given |-> <<>>]

Ci(has, title, authors, year, doi, isbn) ==
    [has |-> has, title |-> title, authors |-> authors, year |-> year,
     doi |-> doi, isbn |-> isbn]

\* no record: before the first call
NoCi == Ci({}, <<>>, <<>>, "", <<>>, <<>>)

\* citation_info.get(key, default)
Get(ci, key, default) == IF key \in ci.has THEN ci[key] ELSE default

\* json.dumps(citation_info, sort_keys=True): the keys in sorted order, each
\* with its value when the record has it
CacheKey(ci) ==
    << <<"authors", "authors" \in ci.has, Get(ci, "authors", <<>>)>>,
       <<"doi", "doi" \in ci.has, Get(ci, "doi", <<>>)>>,
       <<"isbn", "isbn" \in ci.has, Get(ci, "isbn", <<>>)>>,
       <<"title", "title" \in ci.has, Get(ci, "title", <<>>)>>,
       <<"year", "year" \in ci.has, <<Get(ci, "year", "")>> >> >>

\* the first entry whose DOI, lower-cased and stripped, is non-empty and
\* equals the record's (lines 281-285), from entry i on; 0 if there is none
RECURSIVE DoiScan(_, _, _)
DoiScan(its, doi, i) ==
    IF i > Len(its) THEN 0
    ELSE LET item_doi == Strip(Lower(its[i].DOI))
         IN IF item_doi # <<>> /\ item_doi = doi THEN i
            ELSE DoiScan(its, doi, i + 1)

\* the first entry whose ISBN without hyphens and spaces is non-empty and
\* equals the record's (lines 289-293)
RECURSIVE IsbnScan(_, _, _)
IsbnScan(its, isbn, i) ==
    IF i > Len(its) THEN 0
    ELSE LET item_isbn == StripIsbn(its[i].ISBN)
         IN IF item_isbn # <<>> /\ item_isbn = isbn THEN i
            ELSE IsbnScan(its, isbn, i + 1)

\* Scores are fractions <<numerator, denominator>>: 5 * ratio is no integer.
ScoreGE3(s) == s[1] >= 3 * s[2]
ScoreGT(a, b) == a[1] * b[2] > b[1] * a[2]

Max(a, b) == IF a >= b THEN a ELSE b

\* lines 305-307: +2 if the record's year is found in the entry's date
YearScore(target_year, item_date) ==
    IF target_year # "" /\ \E i \in 1..Len(item_date) : item_date[i] = target_year
    THEN 2 ELSE 0

\* lines 309-319: +3 if a creator's lastName equals the family name, or a
\* creator's name equals or contains it
CreatorScore(target_family, item_creators) ==
    IF /\ target_family # <<>>
       /\ \E c \in 1..Len(item_creators) :
            LET creator_last == Lower(item_creators[c].lastName)
                creator_name == Lower(item_creators[c].name)
            IN \/ creator_last # <<>> /\ creator_last = target_family
               \/ /\ creator_name # <<>>
                  /\ \/ creator_name = target_family
                     \/ StrContains(creator_name, target_family)
    THEN 3 ELSE 0

\* lines 321-329: the title signal as a fraction: 5 * overlap / max when
\* overlap / max > 0.6, else 0.  3/5 and the float 0.6 are the same double,
\* and a larger fraction of such sizes is a larger double, so the float
\* test is 5 * overlap > 3 * max.
TitleScoreAtLeast(target_title, item_title) ==
    LET target_words == WordSet(target_title)
        item_words == WordSet(Lower(item_title))
        overlap == Cardinality(target_words \cap item_words)
        larger == Max(Cardinality(target_words), Cardinality(item_words))
    IN IF target_title # <<>> /\ item_title # <<>> /\ 5 * overlap >= 3 * larger
       THEN <<5 * overlap, larger>>
       ELSE <<0, 1>>

TitleScore(target_title, item_title) ==
    LET target_words == WordSet(target_title)
        item_words == WordSet(Lower(item_title))
        overlap == Cardinality(target_words \cap item_words)
        larger == Max(Cardinality(target_words), Cardinality(item_words))
    IN IF target_title # <<>> /\ item_title # <<>> /\ 5 * overlap > 3 * larger
       THEN <<5 * overlap, larger>>
       ELSE <<0, 1>>

\* lines 303-329: the score of one entry
Score(item, target_title, target_year, target_family) ==
    LET base == YearScore(target_year, item.date)
                    + CreatorScore(target_family, item.creators)
        t == TitleScore(target_title, item.title)
    IN <<base * t[2] + t[1], t[2]>>

\* lines 302-333: the loop over the entries from entry i on, with the best
\* entry and its score so far; the result is the best entry, or 0
RECURSIVE FuzzyLoopKeepLast(_, _, _, _, _, _, _)
FuzzyLoopKeepLast(its, i, best_match, best_score, target_title, target_year, target_family) ==
    IF i > Len(its) THEN best_match
    ELSE LET score == Score(its[i], target_title, target_year, target_family)
         IN IF ~ScoreGT(best_score, score) /\ ScoreGE3(score)
            THEN FuzzyLoopKeepLast(its, i + 1, i, score, target_title, target_year, target_family)
            ELSE FuzzyLoopKeepLast(its, i + 1, best_match, best_score,
                                   target_title, target_year, target_family)

RECURSIVE FuzzyLoop(_, _, _, _, _, _, _)
FuzzyLoop(its, i, best_match, best_score, target_title, target_year, target_family) ==
    IF i > Len(its) THEN best_match
    ELSE LET score == Score(its[i], target_title, target_year, target_family)
         IN IF ScoreGT(score, best_score) /\ ScoreGE3(score)
            THEN FuzzyLoop(its, i + 1, i, score, target_title, target_year, target_family)
            ELSE FuzzyLoop(its, i + 1, best_match, best_score,
                           target_title, target_year, target_family)

\* lines 279-285: the DOI stage; 0 if the record has no DOI or no entry has it
DoiStageCaseSensitive(ci, its) ==
    IF "doi" \in ci.has THEN DoiScan(its, Strip(ci.doi), 1) ELSE 0

DoiStage(ci, its) ==
    IF "doi" \in ci.has THEN DoiScan(its, Strip(Lower(ci.doi)), 1) ELSE 0

\* lines 287-293: the ISBN stage
IsbnStage(ci, its) ==
    IF "isbn" \in ci.has THEN IsbnScan(its, StripIsbn(ci.isbn), 1) ELSE 0

\* line 300: target_authors[0].get("family", "").lower() raises on a family
\* name that is None
FamilyRaises(ci) ==
    LET target_authors == Get(ci, "authors", <<>>)
    IN target_authors # <<>> /\ target_authors[1].family = None

\* lines 295-333: the fuzzy stage
FuzzyStage(ci, its) ==
    LET target_title == Lower(Get(ci, "title", <<>>))
        target_year == Get(ci, "year", "")
        target_authors == Get(ci, "authors", <<>>)
        target_family ==
            IF target_authors # <<>> THEN Lower(target_authors[1].family) ELSE <<>>
    IN FuzzyLoop(its, 1, 0, <<0, 1>>, target_title, target_year, target_family)

\* The stages after the cache lookup (lines 277-336): the entry returned, and
\* whether the call raised instead.
Resolve(ci, its) ==
    IF DoiStage(ci, its) # 0 THEN [res |-> DoiStage(ci, its), raised |-> FALSE]
    ELSE IF IsbnStage(ci, its) # 0 THEN [res |-> IsbnStage(ci, its), raised |-> FALSE]
    ELSE IF FamilyRaises(ci) THEN [res |-> 0, raised |-> TRUE]
    ELSE [res |-> FuzzyStage(ci, its), raised |-> FALSE]

\* Which results find_match stores in self._cache: every one, None included
\* (lines 284, 292, 335).
CachesOnlyMatches(res) == res # 0

Caches(res) == TRUE

\* find_match (lines 272-336) on a matcher whose index is `its`, whose cache
\* is `ch` and that has scanned its index `sc` times: the result, whether it
\* came from the cache, and the matcher afterwards.  A call that raises
\* stores nothing.
FindMatch(ci, its, ch, sc) ==
    LET cache_key == CacheKey(ci)
    IN IF cache_key \in DOMAIN ch
       THEN [res |-> ch[cache_key], raised |-> FALSE, hit |-> TRUE,
             cache |-> ch, scans |-> sc]
       ELSE Only({ [res |-> r.res, raised |-> r.raised, hit |-> FALSE,
                    cache |-> IF ~r.raised /\ Caches(r.res)
                              THEN [k \in DOMAIN ch \cup {cache_key} |->
                                        IF k = cache_key THEN r.res ELSE ch[k]]
                              ELSE ch,
                    scans |-> sc + 1] : r \in {Resolve(ci, its)} })

(***************************************************************************)
(* ZoteroMatcher.find_match_by_display_text                                *)
(*                                                                         *)
(* A display text is a sequence of words; the marks ( ) [ ] ; , & are      *)
(* words of their own.                                                     *)
(***************************************************************************)

IsBracket(w) == w \in {"(", ")", "[", "]"}

RECURSIVE LStripBrackets(_)
LStripBrackets(s) ==
    IF s # <<>> /\ IsBracket(Head(s)) THEN LStripBrackets(Tail(s)) ELSE s

RECURSIVE RStripBrackets(_)
RStripBrackets(s) ==
    IF s # <<>> /\ IsBracket(s[Len(s)])
    THEN RStripBrackets(SubSeq(s, 1, Len(s) - 1)) ELSE s

\* display_text.strip("()[] ") (line 342)
StripBrackets(s) == RStripBrackets(LStripBrackets(s))

\* text.split(";") (line 343): the groups, in order, the empty ones included
RECURSIVE SplitGroups(_, _)
SplitGroups(s, cur) ==
    IF s = <<>> THEN <<cur>>
    ELSE IF Head(s) = ";" THEN <<cur>> \o SplitGroups(Tail(s), <<>>)
    ELSE SplitGroups(Tail(s), Append(cur, Head(s)))

\* a word that holds four digits in a row (line 351)
IsYear(w) == w \in {"2019", "2020"}

\* the position of the first word of `s`, from i on, that is a year; 0 if none
RECURSIVE YearPos(_, _)
YearPos(s, i) ==
    IF i > Len(s) THEN 0 ELSE IF IsYear(s[i]) THEN i ELSE YearPos(s, i + 1)

Prefix(s, n) == SubSeq(s, 1, n)
DropLast(s, n) == SubSeq(s, 1, Len(s) - n)
Last(s) == s[Len(s)]

\* .rstrip(",") (line 357): the comma that ends the text
RStripComma(s) == IF s # <<>> /\ Last(s) = "," THEN DropLast(s, 1) ELSE s

\* re.sub(r'\s*et\s+al\.?\s*$', '', ..., IGNORECASE) (line 359)
StripEtAl(s) ==
    IF /\ Len(s) >= 2
       /\ LowerAtom(s[Len(s) - 1]) = "et"
       /\ LowerAtom(Last(s)) \in {"al.", "al"}
    THEN DropLast(s, 2) ELSE s

\* What is left of a word that begins with a prefix word of lines 373-374,
\* which but for "ver" need not end where the word ends.
PrefixedWords == [w \in {"Seeger", "seeger"} |-> "ger"]

\* lines 372-376: a leading "vgl.", "cf.", "see", "see also", ... is removed
StripPrefixWord(s) ==
    IF s = <<>> THEN s
    ELSE IF LowerAtom(Head(s)) \in {"vgl.", "cf.", "cfr.", "s.", "s.a.", "vedi", "ver",
                                    "veja", "zie"}
    THEN Tail(s)
    ELSE IF LowerAtom(Head(s)) = "see"
    THEN (IF Len(s) >= 2 /\ LowerAtom(s[2]) = "also" THEN Tail(Tail(s)) ELSE Tail(s))
    ELSE IF LowerAtom(Head(s)) = "voir"
    THEN (IF Len(s) >= 2 /\ LowerAtom(s[2]) = "aussi" THEN Tail(Tail(s)) ELSE Tail(s))
    ELSE IF Head(s) \in DOMAIN PrefixedWords
    THEN <<PrefixedWords[Head(s)]>> \o Tail(s)
    ELSE s

\* lines 357-376: the author portion of a group whose year is at position y
AuthorPortion(part, y) ==
    StripPrefixWord(StripEtAl(RStripComma(Prefix(part, y - 1))))

\* r'\s*&\s*|\s+and\s+|\s*,\s*' (line 383) matches at word i of s: "&" and
\* "," anywhere, "and" only between two words
IsSeparatorAt(s, i) ==
    \/ s[i] \in {"&", ","}
    \/ LowerAtom(s[i]) = "and" /\ 1 < i /\ i < Len(s)

RECURSIVE SeparatorPos(_, _)
SeparatorPos(s, i) ==
    IF i > Len(s) THEN 0
    ELSE IF IsSeparatorAt(s, i) THEN i ELSE SeparatorPos(s, i + 1)

\* re.split(...)[0].strip() (lines 382-385): the text before the first
\* separator, all of it if there is none
FirstSegment(s) ==
    IF SeparatorPos(s, 1) = 0 THEN s ELSE Prefix(s, SeparatorPos(s, 1) - 1)

\* the connectors of line 387, in the order they are tried
Connectors == <<"und", "et", "y", "e", "en">>

\* the first place where r'\s+<connector>\s+' matches in s: a word between
\* two words; 0 if there is none
RECURSIVE ConnectorPos(_, _, _)
ConnectorPos(s, connector, i) ==
    IF i >= Len(s) THEN 0
    ELSE IF i > 1 /\ LowerAtom(s[i]) = connector THEN i
    ELSE ConnectorPos(s, connector, i + 1)

\* lines 387-391: the connectors are tried in order; the first one that
\* splits the name with at most two words before it cuts the name there
RECURSIVE ConnectorSplitWholeName(_, _)
ConnectorSplitWholeName(primary_author, c) ==
    IF c > Len(Connectors) THEN primary_author
    ELSE LET pos == ConnectorPos(primary_author, Connectors[c], 1)
         IN IF pos # 0 /\ Len(primary_author) <= 2
            THEN Prefix(primary_author, pos - 1)
            ELSE ConnectorSplitWholeName(primary_author, c + 1)

RECURSIVE ConnectorSplit(_, _)
ConnectorSplit(primary_author, c) ==
    IF c > Len(Connectors) THEN primary_author
    ELSE LET pos == ConnectorPos(primary_author, Connectors[c], 1)
         IN IF pos # 0 /\ pos - 1 <= 2
            THEN Prefix(primary_author, pos - 1)
            ELSE ConnectorSplit(primary_author, c + 1)

\* a single capital letter, with or without a period
IsInitial(w) == w \in {"J", "J.", "A", "B", "X"}

\* re.sub(r'\s+[A-Z]\.?\s*$', '', s) (lines 398, 423)
StripInitial(s) == IF Len(s) >= 2 /\ IsInitial(Last(s)) THEN DropLast(s, 1) ELSE s

\* lines 411-414, 425-428: a record with one author and a year
AuthorYearCi(family, year) ==
    Ci({"authors", "year"}, <<>>, <<Author(family)>>, year, <<>>, <<>>)

\* lines 433-437: a record with a title, a year and no author
TitleYearCi(title, year) ==
    Ci({"title", "year", "authors"}, title, <<>>, year, <<>>, <<>>)

\* lines 409-417: find_match with each candidate in turn until one matches;
\* m is the matcher so far, with the result of the last call
RECURSIVE TryCandidates(_, _, _, _, _)
TryCandidates(candidates, c, year, its, m) ==
    IF c > Len(candidates) THEN m
    ELSE Only({ IF r.res # 0 THEN r ELSE TryCandidates(candidates, c + 1, year, its, r) :
                r \in {FindMatch(AuthorYearCi(candidates[c], year), its, m.cache, m.scans)} })

\* lines 345-407 for one group: what the steps before the first find_match
\* make of it
ParseGroup(part) ==
    LET y == YearPos(part, 1)
        author_portion == IF y = 0 THEN <<>> ELSE AuthorPortion(part, y)
        segment == FirstSegment(author_portion)
        split == ConnectorSplit(segment, 1)
        primary_author == StripInitial(split)
        skipped ==
            \/ part = <<>> \/ y = 0
            \/ StripEtAl(RStripComma(Prefix(part, y - 1))) = <<>>
            \/ split = <<>>
    IN [part |-> part, skipped |-> skipped,
        year |-> IF y = 0 THEN "" ELSE part[y], res |-> 0,
        author_portion |-> IF skipped THEN <<>> ELSE author_portion,
        segment |-> IF skipped THEN <<>> ELSE segment,
        split |-> IF skipped THEN <<>> ELSE split,
        primary |-> IF skipped THEN <<>> ELSE primary_author,
        candidates |->
            IF skipped THEN <<>>
            ELSE IF Len(primary_author) > 1
            THEN <<primary_author, <<Last(primary_author)>> >>
            ELSE <<primary_author>>]

\* lines 421-429: without a match, a name of more than two words is tried
\* again as the whole author portion, if that differs
RetryFullAuthor(p, its, m) ==
    LET full_author == StripInitial(p.author_portion)
    IN IF m.res = 0 /\ Len(p.primary) > 2 /\ full_author # p.primary
       THEN FindMatch(AuthorYearCi(full_author, p.year), its, m.cache, m.scans)
       ELSE m

\* lines 431-438: still without a match, the author portion is tried as a title
RetryAsTitle(p, its, m) ==
    IF m.res = 0 /\ Len(p.primary) > 2
    THEN FindMatch(TitleYearCi(p.author_portion, p.year), its, m.cache, m.scans)
    ELSE m

\* lines 409-438 for one parsed group, on the matcher m
ResolveGroup(p, its, m) ==
    Only({ RetryAsTitle(p, its, m2) :
           m2 \in { RetryFullAuthor(p, its, m1) :
                    m1 \in {TryCandidates(p.candidates, 1, p.year, its, m)} } })

\* lines 345-441 for one group: the entry found (0: none), what the steps
\* made of the group, and the matcher afterwards
MatchGroup(part, its, ch, sc) ==
    Only({ IF p.skipped
           THEN [res |-> 0, cache |-> ch, scans |-> sc, group |-> [p EXCEPT !.part = part]]
           ELSE Only({ [res |-> m.res, cache |-> m.cache, scans |-> m.scans, group |-> p] :
                       m \in {ResolveGroup(p, its, [res |-> 0, cache |-> ch, scans |-> sc])} }) :
           p \in {ParseGroup(part)} })

\* line 441: a group's entry is appended when there is one
AppendAlways(matches, res) == Append(matches, res)

AppendFound(matches, res) == IF res # 0 THEN Append(matches, res) ELSE matches

\* lines 345-443: the loop over the groups, from group g on
RECURSIVE MatchGroups(_, _, _, _)
MatchGroups(parts, g, its, acc) ==
    IF g > Len(parts) THEN acc
    ELSE Only({ MatchGroups(parts, g + 1, its, next) :
                next \in { [matches |-> AppendFound(acc.matches, r.res),
                            groups |-> Append(acc.groups, [r.group EXCEPT !.res = r.res]),
                            cache |-> r.cache, scans |-> r.scans] :
                           r \in {MatchGroup(parts[g], its, acc.cache, acc.scans)} } })

\* find_match_by_display_text (lines 338-443): the entries found, in order,
\* what was made of each group, and the matcher afterwards
FindMatchByDisplayText(display_text, its, ch, sc) ==
    IF display_text = <<>>
    THEN [matches |-> <<>>, groups |-> <<>>, cache |-> ch, scans |-> sc]
    ELSE Only({ MatchGroups(parts, 1, its,
                            [matches |-> <<>>, groups |-> <<>>, cache |-> ch, scans |-> sc]) :
                parts \in {SplitGroups(StripBrackets(display_text), <<>>)} })

(***************************************************************************)
(* decode_citavi_payload                                                   *)
(*                                                                         *)
(* An instruction text is a sequence of characters.  Base64 is modelled at *)
(* a smaller width with the structure of the original: a byte has 3 bits   *)
(* and stands for one of eight characters of a JSON text, a Base64 digit   *)
(* has 2 bits ("A" to "D"), two bytes make three digits, and a last single *)
(* byte makes two digits and one "=".  A JSON value is a number written    *)
(* with the digit 1, an array of values, or the empty object.              *)
(***************************************************************************)

\* the characters of a decoded text, by the value of their byte; the last
\* stands for every character that no JSON text of the model holds
ByteChars == <<"[", "]", "1", ",", "{", "}", " ", "?">>
ByteOf(c) == CHOOSE b \in 0..7 : ByteChars[b + 1] = c

Digits == <<"A", "B", "C", "D">>
IsDigit(c) == \E d \in 1..Len(Digits) : Digits[d] = c
DigitOf(c) == (CHOOSE d \in 1..Len(Digits) : Digits[d] = c) - 1

\* str.strip(), str.split(None): the white space of an instruction text
IsWhitespace(c) == c \in {" ", "\t"}

RECURSIVE LStripWhitespace(_)
LStripWhitespace(s) ==
    IF s # <<>> /\ IsWhitespace(Head(s)) THEN LStripWhitespace(Tail(s)) ELSE s

RECURSIVE RStripWhitespace(_)
RStripWhitespace(s) ==
    IF s # <<>> /\ IsWhitespace(s[Len(s)])
    THEN RStripWhitespace(SubSeq(s, 1, Len(s) - 1)) ELSE s

StripWhitespace(s) == LStripWhitespace(RStripWhitespace(s))

JNum(n) == [t |-> "number", n |-> n, elems |-> <<>>]
JArr(elems) == [t |-> "array", n |-> 0, elems |-> elems]
JObj == [t |-> "object", n |-> 0, elems |-> <<>>]
\* None, what decode_citavi_payload returns when nothing could be decoded
JNone == [t |-> "None", n |-> 0, elems |-> <<>>]

NoError == "no error"
Failed(exc) == [ok |-> FALSE, exc |-> exc, val |-> JNone, next |-> 0]
ParsedAt(val, next) == [ok |-> TRUE, exc |-> NoError, val |-> val, next |-> next]

\* the first place from i on that holds no white space
RECURSIVE SkipWhitespace(_, _)
SkipWhitespace(s, i) ==
    IF i <= Len(s) /\ IsWhitespace(s[i]) THEN SkipWhitespace(s, i + 1) ELSE i

\* the first place from i on that holds no digit 1
RECURSIVE SkipOnes(_, _)
SkipOnes(s, i) == IF i <= Len(s) /\ s[i] = "1" THEN SkipOnes(s, i + 1) ELSE i

\* json.loads: the value that begins at place i, and the place after it
RECURSIVE ParseValue(_, _)
RECURSIVE ParseElements(_, _, _)
ParseValue(s, i) ==
    LET j == SkipWhitespace(s, i)
    IN IF j > Len(s) THEN Failed("JSONDecodeError")
       ELSE IF s[j] = "1" THEN ParsedAt(JNum(SkipOnes(s, j) - j), SkipOnes(s, j))
       ELSE IF s[j] = "{"
       THEN LET k == SkipWhitespace(s, j + 1)
            IN IF k <= Len(s) /\ s[k] = "}" THEN ParsedAt(JObj, k + 1)
               ELSE Failed("JSONDecodeError")
       ELSE IF s[j] = "["
       THEN LET k == SkipWhitespace(s, j + 1)
            IN IF k <= Len(s) /\ s[k] = "]" THEN ParsedAt(JArr(<<>>), k + 1)
               ELSE ParseElements(s, k, <<>>)
       ELSE Failed("JSONDecodeError")

ParseElements(s, i, acc) ==
    Only({ IF ~r.ok THEN r
           ELSE LET k == SkipWhitespace(s, r.next)
                IN IF k > Len(s) THEN Failed("JSONDecodeError")
                   ELSE IF s[k] = "," THEN ParseElements(s, k + 1, Append(acc, r.val))
                   ELSE IF s[k] = "]" THEN ParsedAt(JArr(Append(acc, r.val)), k + 1)
                   ELSE Failed("JSONDecodeError") :
           r \in {ParseValue(s, i)} })

\* json.loads(text): a value and nothing but white space after it
JsonLoads(text) ==
    Only({ IF r.ok /\ SkipWhitespace(text, r.next) <= Len(text)
           THEN Failed("JSONDecodeError") ELSE r :
           r \in {ParseValue(text, 1)} })

\* base64.b64decode(text) without validation and .decode("utf-8",
\* errors="replace"): characters that are neither digits nor "=" are passed
\* over; a "=" after two digits of a group ends the data; digits left over
\* at the end are an error.  `group` holds the digits of the open group.
RECURSIVE B64Walk(_, _, _, _)
B64Walk(text, i, group, bytes) ==
    IF i > Len(text)
    THEN IF group = <<>> THEN [ok |-> TRUE, exc |-> NoError, text |-> bytes]
         ELSE [ok |-> FALSE, exc |-> "binascii.Error", text |-> <<>>]
    ELSE IF text[i] = "="
    THEN IF Len(group) = 2
         THEN [ok |-> TRUE, exc |-> NoError,
               text |-> Append(bytes, ByteChars[((group[1] * 4 + group[2]) \div 2) + 1])]
         ELSE B64Walk(text, i + 1, group, bytes)
    ELSE IF ~IsDigit(text[i]) THEN B64Walk(text, i + 1, group, bytes)
    ELSE IF Len(group) < 2 THEN B64Walk(text, i + 1, Append(group, DigitOf(text[i])), bytes)
    ELSE LET n == group[1] * 16 + group[2] * 4 + DigitOf(text[i])
         IN B64Walk(text, i + 1, <<>>,
                    bytes \o <<ByteChars[(n \div 8) + 1], ByteChars[(n % 8) + 1]>>)

B64Decode(text) == B64Walk(text, 1, <<>>, <<>>)

\* lines 120-124: one candidate; the exceptions of line 123 are passed over,
\* any other leaves the function
CaughtAtCandidate ==
    {"JSONDecodeError", "ValueError", "UnicodeDecodeError", "binascii.Error"}

TryCandidate(candidate) ==
    Only({ IF ~d.ok THEN [ok |-> FALSE, exc |-> d.exc, val |-> JNone]
           ELSE Only({ [ok |-> j.ok, exc |-> j.exc, val |-> j.val] :
                       j \in {JsonLoads(d.text)} }) :
           d \in {B64Decode(candidate)} })

\* raw.split(None, 1)[-1]
RECURSIVE TokenEnd(_, _)
TokenEnd(s, i) == IF i <= Len(s) /\ ~IsWhitespace(s[i]) THEN TokenEnd(s, i + 1) ELSE i

SplitLast(raw) ==
    LET s == LStripWhitespace(raw)
        rest == LStripWhitespace(SubSeq(s, TokenEnd(s, 1), Len(s)))
    IN IF rest = <<>> THEN RStripWhitespace(s) ELSE rest

\* line 116: the second candidate
SecondCandidate(raw) ==
    IF \E i \in 1..Len(raw) : raw[i] = " " THEN SplitLast(raw) ELSE raw

\* line 126: re.search(r'\{.*\}', raw, re.DOTALL): from the first "{" to the
\* last "}" after it; <<>> when there is no match
BraceMatch(raw) ==
    LET opens == {i \in 1..Len(raw) : raw[i] = "{"}
        first_open == CHOOSE i \in opens : \A k \in opens : i <= k
        closes == {i \in 1..Len(raw) : raw[i] = "}" /\ i > first_open}
        last_close == CHOOSE i \in closes : \A k \in closes : i >= k
    IN IF opens = {} THEN <<>>
       ELSE IF closes = {} THEN <<>>
       ELSE SubSeq(raw, first_open, last_close)

\* lines 106-114: the texts of the w:instrText elements that have one, each
\* stripped, and their concatenation
RECURSIVE InstrParts(_)
InstrParts(runs) ==
    IF runs = <<>> THEN <<>>
    ELSE (IF Head(runs) # <<>> THEN <<StripWhitespace(Head(runs))>> ELSE <<>>)
         \o InstrParts(Tail(runs))

RECURSIVE Concat(_)
Concat(parts) == IF parts = <<>> THEN <<>> ELSE Head(parts) \o Concat(Tail(parts))

Decoded(val, step) == [val |-> val, step |-> step, exc |-> NoError]
Raised(exc, step) == [val |-> JNone, step |-> step, exc |-> exc]

\* lines 126-133
BraceStep(raw) ==
    IF BraceMatch(raw) = <<>> THEN Decoded(JNone, "none")
    ELSE Only({ IF j.ok THEN Decoded(j.val, "c")
                ELSE IF j.exc = "JSONDecodeError" THEN Decoded(JNone, "none")
                ELSE Raised(j.exc, "c") :
                j \in {JsonLoads(BraceMatch(raw))} })

\* lines 116-124 for the second candidate, then lines 126-133
SecondStep(raw) ==
    Only({ IF candidate = <<>> THEN BraceStep(raw)
           ELSE Only({ IF r.ok THEN Decoded(r.val, "b")
                       ELSE IF r.exc \in CaughtAtCandidate THEN BraceStep(raw)
                       ELSE Raised(r.exc, "b") :
                       r \in {TryCandidate(candidate)} }) :
           candidate \in {StripWhitespace(SecondCandidate(raw))} })

\* decode_citavi_payload(sdt) (lines 101-133): has_content says whether the
\* w:sdt has a w:sdtContent, runs are the texts of its w:instrText elements
DecodeCitaviPayload(has_content, runs) ==
    IF ~has_content THEN Decoded(JNone, "none")
    ELSE IF InstrParts(runs) = <<>> THEN Decoded(JNone, "none")
    ELSE Only({ Only({ IF candidate = <<>> THEN SecondStep(raw)
                       ELSE Only({ IF r.ok THEN Decoded(r.val, "a")
                                   ELSE IF r.exc \in CaughtAtCandidate THEN SecondStep(raw)
                                   ELSE Raised(r.exc, "a") :
                                   r \in {TryCandidate(candidate)} }) :
                       candidate \in {StripWhitespace(raw)} }) :
                raw \in {Concat(InstrParts(runs))} })

(***************************************************************************)
(* verify_document_integrity                                               *)
(***************************************************************************)

UnmatchedEnd == [kind |-> "unmatched end", count |-> 0]
Unclosed(n) == [kind |-> "unclosed", count |-> n]
NoBody == [kind |-> "no body", count |-> 0]
SdtWithoutContent == [kind |-> "sdt without content", count |-> 0]

\* lines 720-723: the counter after one marker
Step(field_stack, fld_type) ==
    IF fld_type = "begin" THEN field_stack + 1
    ELSE IF fld_type = "end" THEN field_stack - 1
    ELSE field_stack

\* lines 717-726: the walk over the markers from marker i on; it ends at the
\* first marker that makes the counter negative
RECURSIVE FieldWalkStopAtZero(_, _, _)
FieldWalkStopAtZero(markers, i, field_stack) ==
    IF i > Len(markers) THEN [field_stack |-> field_stack, issues |-> <<>>]
    ELSE LET next == Step(field_stack, markers[i])
         IN IF next <= 0 THEN [field_stack |-> next, issues |-> <<UnmatchedEnd>>]
            ELSE FieldWalkStopAtZero(markers, i + 1, next)

RECURSIVE FieldWalkOn(_, _, _)
FieldWalkOn(markers, i, field_stack) ==
    IF i > Len(markers) THEN [field_stack |-> field_stack, issues |-> <<>>]
    ELSE LET next == Step(field_stack, markers[i])
             rest == FieldWalkOn(markers, i + 1, next)
         IN IF next < 0
            THEN [field_stack |-> rest.field_stack,
                  issues |-> <<UnmatchedEnd>> \o rest.issues]
            ELSE rest

RECURSIVE FieldWalk(_, _, _)
FieldWalk(markers, i, field_stack) ==
    IF i > Len(markers) THEN [field_stack |-> field_stack, issues |-> <<>>]
    ELSE LET next == Step(field_stack, markers[i])
         IN IF next < 0 THEN [field_stack |-> next, issues |-> <<UnmatchedEnd>>]
            ELSE FieldWalk(markers, i + 1, next)

\* lines 737-740: one issue for each w:sdt without a w:sdtContent
RECURSIVE SdtIssues(_)
SdtIssues(sdts) ==
    IF sdts = <<>> THEN <<>>
    ELSE (IF Head(sdts) THEN <<>> ELSE <<SdtWithoutContent>>) \o SdtIssues(Tail(sdts))

\* verify_document_integrity on a root element (lines 714-748)
VerifyDocumentIntegrity(markers, body, sdts) ==
    LET walk == FieldWalk(markers, 1, 0)
    IN walk.issues
        \o (IF walk.field_stack > 0 THEN <<Unclosed(walk.field_stack)>> ELSE <<>>)
        \o (IF body THEN <<>> ELSE <<NoBody>>)
        \o SdtIssues(sdts)

(***************************************************************************)
(* process_xml_file                                                        *)
(*                                                                         *)
(* A part (word/document.xml, word/footnotes.xml, word/endnotes.xml) is    *)
(* the sequence of the nodes of its body in document order.  A node of     *)
(* kind "citavi" is a w:sdt whose tag starts with "CitaviPlaceholder#":    *)
(* `infos` is what extract_citation_info_from_citavi makes of its decoded  *)
(* payload, `display` is its display text.  The other kinds: "zotero", a   *)
(* ZOTERO_ITEM field with the entries `items`; "citavibib", a w:sdt whose  *)
(* tag names CitaviBibliography; "zoterobib", a ZOTERO_BIBL field;         *)
(* "sectPr"; "p", any other paragraph.                                     *)
(***************************************************************************)

Node(kind, infos, display, its) ==
    [kind |-> kind, infos |-> infos, display |-> display, items |-> its]

Placeholder(infos, display) == Node("citavi", infos, display, <<>>)
Plain(kind) == Node(kind, <<>>, <<>>, <<>>)

\* a part that the package does not hold
Absent == <<Plain("absent")>>

\* lines 789-791: the descriptor of a record without a match
Descriptor(ci) ==
    << IF Get(ci, "authors", <<>>) # <<>> THEN ci.authors[1].family ELSE <<"?">>,
       Get(ci, "year", "?") >>

\* lines 782-791: find_match on each record of a placeholder, from record i
\* on; acc holds the entries matched, the descriptors of the records without
\* a match, and the matcher.  A call that raises ends the loop.
RECURSIVE MatchInfos(_, _, _, _)
MatchInfos(infos, i, its, acc) ==
    IF i > Len(infos) \/ acc.raised THEN acc
    ELSE Only({ MatchInfos(infos, i + 1, its, next) :
                next \in { [zotero_items |-> IF r.res # 0 THEN Append(acc.zotero_items, r.res)
                                             ELSE acc.zotero_items,
                            unmatched |-> IF r.res = 0 /\ ~r.raised
                                          THEN Append(acc.unmatched, Descriptor(infos[i]))
                                          ELSE acc.unmatched,
                            raised |-> r.raised,
                            cache |-> r.cache, scans |-> r.scans] :
                           r \in {FindMatch(infos[i], its, acc.cache, acc.scans)} } })

\* line 793: the display text is tried when no record matched and there is
\* a display text
Fallback(zotero_items, display_text) == zotero_items = <<>> /\ display_text # <<>>

\* lines 793-797: the entries of the placeholder after the fallback
WithFallback(ph, its, a) ==
    IF ~a.raised /\ Fallback(a.zotero_items, ph.display)
    THEN Only({ [a EXCEPT !.zotero_items = d.matches, !.cache = d.cache, !.scans = d.scans] :
                d \in {FindMatchByDisplayText(ph.display, its, a.cache, a.scans)} })
    ELSE a

\* lines 804-811: the field that replaces a placeholder
ZoteroField(zotero_items, display_text) ==
    Node("zotero", <<>>, IF display_text # <<>> THEN display_text ELSE <<"(Citation)">>,
         zotero_items)

\* lines 770-816 for one placeholder: the node that stands in its place
\* afterwards, the counters and the matcher
ProcessPlaceholder(ph, its, st) ==
    Only({ IF a.raised
           THEN [st EXCEPT !.raised = TRUE, !.cache = a.cache, !.scans = a.scans]
           ELSE IF a.zotero_items = <<>>
           THEN [st EXCEPT !.nodes = Append(st.nodes, ph),
                           !.skipped = st.skipped + 1,
                           !.unmatched = a.unmatched,
                           !.cache = a.cache, !.scans = a.scans]
           ELSE [st EXCEPT !.nodes = Append(st.nodes, ZoteroField(a.zotero_items, ph.display)),
                           !.converted = st.converted + 1,
                           !.unmatched = a.unmatched,
                           !.modified = TRUE,
                           !.cache = a.cache, !.scans = a.scans] :
           a \in { WithFallback(ph, its, a0) :
                   a0 \in {MatchInfos(ph.infos, 1, its,
                                      [zotero_items |-> <<>>, unmatched |-> st.unmatched,
                                       raised |-> FALSE,
                                       cache |-> st.cache, scans |-> st.scans])} } })

\* lines 770-816: the loop over the nodes of the part, from node i on; only
\* the placeholders found by find_citavi_sdts are touched
RECURSIVE ProcessNodes(_, _, _, _)
ProcessNodes(nodes, i, its, st) ==
    IF i > Len(nodes) \/ st.raised THEN st
    ELSE IF nodes[i].kind # "citavi"
    THEN ProcessNodes(nodes, i + 1, its, [st EXCEPT !.nodes = Append(st.nodes, nodes[i])])
    ELSE Only({ ProcessNodes(nodes, i + 1, its, next) :
                next \in {ProcessPlaceholder(nodes[i], its, st)} })

\* remove_citavi_bibliography (lines 643-663): the nodes left
RemoveCitaviBibliography(nodes) == SelectSeq(nodes, LAMBDA n : n.kind # "citavibib")

\* the place of the first node of a kind; 0 if there is none
RECURSIVE KindPos(_, _, _)
KindPos(nodes, kind, i) ==
    IF i > Len(nodes) THEN 0
    ELSE IF nodes[i].kind = kind THEN i ELSE KindPos(nodes, kind, i + 1)

\* add_zotero_bibl_at_end (lines 666-691): the nodes afterwards; nothing is
\* added when the part holds a ZOTERO_BIBL field
AddZoteroBiblAtEnd(nodes) ==
    IF KindPos(nodes, "zoterobib", 1) # 0 THEN nodes
    ELSE IF KindPos(nodes, "sectPr", 1) # 0
    THEN LET at == KindPos(nodes, "sectPr", 1)
         IN SubSeq(nodes, 1, at - 1) \o <<Plain("zoterobib")>> \o SubSeq(nodes, at, Len(nodes))
    ELSE Append(nodes, Plain("zoterobib"))

\* lines 819-830: the bibliography of word/document.xml
HandleBibliography(st) ==
    Only({ IF st.converted > 0 \/ st.modified \/ Len(removed) < Len(st.nodes)
           THEN [st EXCEPT !.nodes = AddZoteroBiblAtEnd(removed),
                           !.modified = \/ st.modified
                                        \/ Len(removed) < Len(st.nodes)
                                        \/ AddZoteroBiblAtEnd(removed) # removed]
           ELSE st :
           removed \in {RemoveCitaviBibliography(st.nodes)} })

\* process_xml_file (lines 753-837) on the part `name` whose nodes are
\* `nodes`, with the counters of stats and the matcher (its, ch, sc): the nodes
\* written back (those read, when nothing was modified), the counters, the
\* matcher, whether the tree was verified, and whether the call raised.  A
\* part without a placeholder is left at once (line 764).
ProcessXmlFile(name, nodes, its, counters, ch, sc) ==
    IF KindPos(nodes, "citavi", 1) = 0
    THEN [nodes |-> nodes, converted |-> counters.converted, skipped |-> counters.skipped,
          unmatched |-> counters.unmatched, modified |-> FALSE, raised |-> FALSE,
          cache |-> ch, scans |-> sc]
    ELSE Only({ IF st.raised THEN [st EXCEPT !.nodes = nodes]
                ELSE Only({ IF final.modified THEN final ELSE [final EXCEPT !.nodes = nodes] :
                            final \in {IF name = "document.xml"
                                       THEN HandleBibliography(st) ELSE st} }) :
                st \in {ProcessNodes(nodes, 1, its,
                                     [nodes |-> <<>>, converted |-> counters.converted,
                                      skipped |-> counters.skipped,
                                      unmatched |-> counters.unmatched,
                                      modified |-> FALSE, raised |-> FALSE,
                                      cache |-> ch, scans |-> sc])} })

(***************************************************************************)
(* run_conversion: the archive                                             *)
(*                                                                         *)
(* A path is a sequence of components and a component is a sequence of     *)
(* runs of characters, so that a name can begin with another name.  A      *)
(* member name whose first component is empty begins with "/".             *)
(***************************************************************************)

ParentDir == <<"..">>
CurDir == <<".">>
WordDir == <<"word">>
ContentTypesName == <<"[Content_Types].xml">>

\* line 865: extract_dir, under the temporary directory
ExtractDir == << <<"tmp">>, <<"docx_contents">> >>

\* the member [Content_Types].xml at the root of the package
ContentTypes == <<ContentTypesName>>

PartNames == <<"document.xml", "footnotes.xml", "endnotes.xml">>

\* line 880: word/<xml_name>
PartPath(xml_name) == <<WordDir, <<xml_name>>>>

\* os.path.join(dir, member): an absolute member replaces the directory
Join(dir, member) ==
    IF member # <<>> /\ member[1] = <<>> THEN Tail(member) ELSE dir \o member

\* os.path.realpath of an absolute path without links: "." and empty
\* components go, ".." takes the component before it with it
RECURSIVE RealPath(_, _)
RealPath(path, done) ==
    IF path = <<>> THEN done
    ELSE IF path[1] \in {<<>>, CurDir} THEN RealPath(Tail(path), done)
    ELSE IF path[1] = ParentDir
    THEN RealPath(Tail(path), IF done = <<>> THEN <<>> ELSE SubSeq(done, 1, Len(done) - 1))
    ELSE RealPath(Tail(path), Append(done, path[1]))

\* the string of an absolute path
RECURSIVE PathString(_)
PathString(path) ==
    IF path = <<>> THEN <<>> ELSE <<"/">> \o path[1] \o PathString(Tail(path))

\* str.startswith
StartsWith(s, prefix) ==
    Len(prefix) <= Len(s) /\ SubSeq(s, 1, Len(prefix)) = prefix

\* lines 870-872: the test that makes run_conversion refuse a member
Unsafe(member) ==
    ~StartsWith(PathString(RealPath(Join(ExtractDir, member), <<>>)),
                PathString(RealPath(ExtractDir, <<>>)))

\* line 877, ZipFile.extractall: the place of a member under extract_dir;
\* empty components, "." and ".." are dropped from its name
ExtractedName(member) ==
    SelectSeq(member, LAMBDA c : c \notin {<<>>, CurDir, ParentDir})

\* the sequences that hold each element of S once
RECURSIVE Orders(_)
Orders(S) ==
    IF S = {} THEN {<<>>}
    ELSE UNION { {<<x>> \o rest : rest \in Orders(S \ {x})} : x \in S }

\* lines 893-896: the files that os.walk hands to the second write
WalkedAll(fs) == fs

Walked(fs) == fs \ {ContentTypes}

\* line 888: the default compression of the output archive
ZipDeflated == "ZIP_DEFLATED"
\* lines 891-892
ZipStored == "ZIP_STORED"

Member(arcname, compress_type) == [arcname |-> arcname, compress_type |-> compress_type]

\* lines 887-899: the members of the output archive, os.walk having handed
\* over the files in the order `order`
Repacked(fs, order) ==
    (IF ContentTypes \in fs THEN <<Member(ContentTypes, ZipStored)>> ELSE <<>>)
    \o [i \in 1..Len(order) |-> Member(order[i], ZipDeflated)]

(***************************************************************************)
(* The library entries and citation records of the specifications          *)
(***************************************************************************)

MaxLib == 2
MaxCalls == 2

Creator(last, name) == [lastName |-> last, name |-> name]

Entry(key, doi, isbn, date, creators, title) ==
    [key |-> key, DOI |-> doi, ISBN |-> isbn, date |-> date,
     creators |-> creators, title |-> title]

EntryPool ==
    { Entry("K1", <<"a", "X">>, <<"9", "-", "8">>, <<"2019">>,
            <<Creator(<<"Smith">>, <<>>)>>, <<"Advances", "in", "Biology">>),
      Entry("K2", <<>>, <<"9", "-", "7">>, <<"May", "2019">>,
            <<Creator(<<"Jones">>, <<>>), Creator(<<"Smith">>, <<>>)>>,
            <<"Molecular", "Chemistry">>),
      Entry("K3", <<" ", "a", "x">>, <<>>, <<"2020">>,
            <<Creator(<<"Jones">>, <<>>)>>, <<"advances", "in", "biology", "and", "chemistry">>),
      Entry("K4", <<"b">>, <<>>, <<"2020">>,
            <<Creator(<<>>, <<"World", "Health", "Organization">>)>>, <<>>) }

RECURSIVE SeqsUpTo(_, _)
SeqsUpTo(S, n) ==
    IF n = 0 THEN {<<>>}
    ELSE LET shorter == SeqsUpTo(S, n - 1)
         IN shorter \cup {Append(q, x) : q \in shorter, x \in S}

Libraries == SeqsUpTo(EntryPool, MaxLib)

RecordPool ==
    { \* the DOI of K1 (and K3), the ISBN and the title of K2
      Ci({"doi", "title", "authors", "year", "isbn"},
         <<"Molecular", "Chemistry">>, <<Author(<<"Jones">>)>>, "2020",
         <<" ", "A", "x", " ">>, <<"9", "7">>),
      \* the ISBN of K2, a DOI no entry has, the author and year of K1
      Ci({"doi", "isbn", "authors", "year"}, <<>>, <<Author(<<"Smith">>)>>, "2019",
         <<"z">>, <<"9", " ", "7">>),
      \* author and year
      Ci({"authors", "year"}, <<>>, <<Author(<<"Smith">>)>>, "2019", <<>>, <<>>),
      Ci({"authors", "year"}, <<>>, <<Author(<<"Health", "Organization">>)>>, "2020",
         <<>>, <<>>),
      \* a title alone
      Ci({"title"}, <<"Advances", "in", "Biology">>, <<>>, "", <<>>, <<>>),
      Ci({"title", "year", "authors"}, <<"advances", "in", "biology", "and">>, <<>>,
         "2020", <<>>, <<>>),
      \* a year alone: no entry reaches 3
      Ci({"year"}, <<>>, <<>>, "2019", <<>>, <<>>),
      \* a family name that is None, without and with a DOI
      Ci({"authors", "year"}, <<>>, <<Author(None)>>, "2019", <<>>, <<>>),
      Ci({"authors", "doi"}, <<>>, <<Author(None)>>, "", <<"B">>, <<>>) }

(***************************************************************************)
(* SpecMatch: calls of find_match on one matcher                           *)
(***************************************************************************)

NoParts == [xml_name \in {"document.xml", "footnotes.xml", "endnotes.xml"} |-> Absent]
NoStats == [converted |-> 0, skipped |-> 0, unmatched |-> <<>>]
ConvIdle ==
    /\ remote = <<>> /\ remoteOk = FALSE
    /\ archive = [members |-> {}, parts |-> NoParts]
    /\ pc = "idle" /\ partAt = 0 /\ files = {} /\ work = NoParts
    /\ stats = NoStats /\ err = "" /\ out = <<>> /\ outParts = NoParts
BiblIdle ==
    bBody = TRUE /\ bFirst = <<>> /\ bPrev = <<>> /\ bNodes = <<>> /\ bReturns = <<>>
DecodeIdle ==
    /\ eContent = FALSE /\ eRuns = <<>> /\ eEncoded = FALSE /\ eValue = JNone
    /\ eResult = Decoded(JNone, "none") /\ eDone = FALSE
NoAllStats ==
    [successful |-> 0, failed |-> 0, total_converted |-> 0, total_skipped |-> 0,
     total_unmatched |-> 0]
BatchIdle ==
    /\ kMode = "idle" /\ kDocs = <<>> /\ kVerify = FALSE /\ kPc = "idle" /\ kIdx = 0
    /\ kMatchers = 0 /\ kFetches = 0 /\ kAllStats = NoAllStats /\ kOutcomes = <<>>
    /\ kProgress = <<>>
LogIdle == lKey = <<>> /\ lPc = "idle" /\ lLog = <<>> /\ lSignal = <<>>
NoResults ==
    [original_citavi_count |-> 0, converted_citavi_remaining |-> 0,
     converted_zotero_count |-> 0, success |-> FALSE, outcome |-> ""]
CheckIdle ==
    /\ cOriginal = [members |-> {}, parts |-> NoParts]
    /\ cConverted = [members |-> {}, parts |-> NoParts]
    /\ cResults = NoResults /\ cPc = "idle"
NoTree == [markers |-> <<>>, body |-> FALSE, sdts |-> <<>>]
WriteIdle ==
    /\ wTrees = [xml_name \in DOMAIN NoParts |-> NoTree]
    /\ wModified = [xml_name \in DOMAIN NoParts |-> FALSE]
    /\ wAt = 0 /\ wEvents = <<>>
\* a JSON value of an object: no such key, null, a string or a list
Missing == [kind |-> "missing", v |-> <<>>]
Null == [kind |-> "null", v |-> <<>>]
Str(text) == [kind |-> "str", v |-> text]
List(elements) == [kind |-> "list", v |-> elements]
JsonEntry(title, authors, year, doi, isbn) ==
    [dict |-> TRUE, Title |-> title, Authors |-> authors, Year |-> year, Doi |-> doi,
     Isbn |-> isbn]
NoFields == JsonEntry(Missing, Missing, Missing, Missing, Missing)
NoPayload == [entries |-> Missing, self |-> NoFields, nested |-> Missing]
ExtractIdle ==
    /\ xPayload = NoPayload /\ xDisplay = <<>> /\ xInfos = <<>> /\ xPassed = <<>>
    /\ xPc = "idle"
FieldIdle ==
    /\ fJson = <<>> /\ fDisplay = <<>> /\ fRuns = <<>>
    /\ fFirst = <<>> /\ fNodes = <<>> /\ fIssues = <<>>
    /\ fPc = "idle"
CancelIdle ==
    /\ nTotal = 0 /\ nIdx = 0 /\ nBusy = FALSE /\ nWorker = "idle" /\ nRequest = "idle"
    /\ nClock = 0 /\ nAfter = 0
\* self._all_items of a matcher: None, or the list
NoIndex == [fetched |-> FALSE, items |-> <<>>]
FetchIdle ==
    /\ gRemote = <<>> /\ gAllItems = NoIndex /\ gStart = 0 /\ gPages = <<>>
    /\ gRequests = <<>> /\ gPc = "idle" /\ gDuring = 0 /\ gReturns = <<>>
TailIdle == WriteIdle /\ ExtractIdle /\ FieldIdle /\ CancelIdle /\ FetchIdle
EarlierIdle == BiblIdle /\ DecodeIdle /\ BatchIdle /\ LogIdle /\ CheckIdle
MoreIdle == EarlierIdle /\ TailIdle
TitleIdle == tTitle = <<>> /\ iTitle = <<>> /\ tScore = <<0, 1>> /\ tDone = FALSE
DisplayIdle == dText = <<>> /\ dMatches = <<>> /\ dGroups = <<>> /\ dDone = FALSE
VerifyIdle ==
    vMarkers = <<>> /\ vBody = TRUE /\ vSdts = <<>> /\ vIssues = <<>> /\ vDone = FALSE

MatchInit ==
    /\ items \in Libraries
    /\ cache = <<>>
    /\ calls = 0
    /\ scans = 0
    /\ first = <<>>
    /\ lastCi = NoCi
    /\ lastRes = 0
    /\ lastRaised = FALSE
    /\ lastHit = FALSE
    /\ lastRepeat = FALSE
    /\ lastScans = 0
    /\ TitleIdle
    /\ DisplayIdle
    /\ VerifyIdle
    /\ ConvIdle
    /\ MoreIdle

\* matcher.find_match(ci)
CallFindMatch(ci) ==
    /\ calls < MaxCalls
    /\ \E r \in {FindMatch(ci, items, cache, scans)}, k \in {CacheKey(ci)} :
          /\ cache' = r.cache
          /\ scans' = r.scans
          /\ lastCi' = ci
          /\ lastRes' = r.res
          /\ lastRaised' = r.raised
          /\ lastHit' = r.hit
          /\ lastRepeat' = (k \in DOMAIN first)
          /\ first' = IF r.raised \/ k \in DOMAIN first THEN first
                      ELSE [x \in DOMAIN first \cup {k} |->
                                IF x = k THEN r.res ELSE first[x]]
    /\ lastScans' = scans
    /\ calls' = calls + 1
    /\ UNCHANGED <<items, titleVars, displayVars, verifyVars, convVars, moreVars>>

MatchNext == \E ci \in RecordPool : CallFindMatch(ci)

SpecMatch == MatchInit /\ [][MatchNext]_vars

\* The record of the last call, as the fuzzy stage reads it (lines 297-300).
LastScore(i) ==
    LET target_authors == Get(lastCi, "authors", <<>>)
    IN Score(items[i], Lower(Get(lastCi, "title", <<>>)), Get(lastCi, "year", ""),
             IF target_authors # <<>> THEN Lower(target_authors[1].family) ELSE <<>>)

\* The entries whose DOI is the record's, case and surrounding blanks aside.
SameDoi(ci) ==
    {i \in 1..Len(items) :
        /\ Strip(Lower(items[i].DOI)) # <<>>
        /\ Strip(Lower(items[i].DOI)) = Strip(Lower(ci.doi))}

\* C4: a call of find_match with a record that an earlier call on the same
\* matcher has answered returns what the first call returned, comes from the
\* cache and does not scan the index again; also when the answer was None.
C4_FindMatchIdempotent ==
    (calls > 0 /\ lastRepeat) =>
        /\ ~lastRaised
        /\ lastHit
        /\ lastRes = first[CacheKey(lastCi)]
        /\ scans = lastScans

C4_Witness ==
    /\ calls > 1 /\ lastRepeat /\ lastRes = 0 /\ items # <<>>
    /\ lastHit /\ scans = lastScans

\* C5: a record whose DOI is, case and surrounding blanks aside, the DOI of
\* exactly one library entry resolves to that entry, whatever its other
\* fields say.
C5_DoiWins ==
    (calls > 0 /\ "doi" \in lastCi.has) =>
        \A i \in 1..Len(items) :
            SameDoi(lastCi) = {i} => (~lastRaised /\ lastRes = i)

C5_Witness ==
    /\ calls > 0 /\ "doi" \in lastCi.has /\ ~lastHit
    /\ \E i \in 1..Len(items) :
        /\ SameDoi(lastCi) = {i}
        /\ lastRes = i
        /\ IsbnStage(lastCi, items) \notin {0, i}
        /\ FuzzyStage(lastCi, items) \notin {0, i}
        /\ lastCi.doi # items[i].DOI

\* C6: when neither the DOI nor the ISBN stage answers, the entry returned has
\* the maximal score of the index, that score is at least 3, and no earlier
\* entry has the same score; None is returned exactly when no entry reaches 3.
C6_FuzzyBestFirst ==
    (/\ calls > 0 /\ ~lastRaised
     /\ DoiStage(lastCi, items) = 0 /\ IsbnStage(lastCi, items) = 0) =>
        IF lastRes = 0
        THEN \A i \in 1..Len(items) : ~ScoreGE3(LastScore(i))
        ELSE /\ lastRes \in 1..Len(items)
             /\ ScoreGE3(LastScore(lastRes))
             /\ \A i \in 1..Len(items) : ~ScoreGT(LastScore(i), LastScore(lastRes))
             /\ \A i \in 1..(lastRes - 1) : ScoreGT(LastScore(lastRes), LastScore(i))

C6_Witness ==
    /\ calls > 0 /\ ~lastRaised /\ ~lastHit
    /\ DoiStage(lastCi, items) = 0 /\ IsbnStage(lastCi, items) = 0
    /\ Len(items) = 2 /\ lastRes = 1 /\ items[1] # items[2]
    /\ LastScore(1) = LastScore(2)

(***************************************************************************)
(* SpecTitle: the title signal of find_match on one pair of titles         *)
(***************************************************************************)

MaxTitleWords == 5

TitleWords == <<"Advances", "in", "Molecular", "Biology", "and", "Chemistry">>

\* the words of `ws` at the positions P, in order
RECURSIVE Pick(_, _, _)
Pick(ws, P, i) ==
    IF i > Len(ws) THEN <<>>
    ELSE (IF i \in P THEN <<ws[i]>> ELSE <<>>) \o Pick(ws, P, i + 1)

PickedTitles ==
    {Pick(TitleWords, P, 1) :
        P \in {Q \in SUBSET (1..Len(TitleWords)) : Cardinality(Q) <= MaxTitleWords}}

\* a record title may repeat a word; an entry title may be in lower case
RecordTitles == PickedTitles \cup {t \o <<t[1]>> : t \in PickedTitles \ {<<>>}}
EntryTitles == PickedTitles \cup {Lower(t) : t \in PickedTitles}

MatcherIdle ==
    /\ items = <<>> /\ cache = <<>> /\ calls = 0 /\ scans = 0 /\ first = <<>>
    /\ lastCi = NoCi /\ lastRes = 0 /\ lastRaised = FALSE /\ lastHit = FALSE
    /\ lastRepeat = FALSE /\ lastScans = 0

TitleInit ==
    /\ tTitle \in RecordTitles
    /\ iTitle \in EntryTitles
    /\ tScore = <<0, 1>>
    /\ tDone = FALSE
    /\ MatcherIdle
    /\ DisplayIdle
    /\ VerifyIdle
    /\ ConvIdle
    /\ MoreIdle

\* lines 297 and 321-329 on the record title tTitle and the entry title iTitle
ScoreTitle ==
    /\ ~tDone
    /\ tScore' = TitleScore(Lower(tTitle), iTitle)
    /\ tDone' = TRUE
    /\ UNCHANGED <<tTitle, iTitle, matcherVars, displayVars, verifyVars, convVars, moreVars>>

TitleNext == ScoreTitle

SpecTitle == TitleInit /\ [][TitleNext]_vars

LowerWords(t) == {LowerAtom(t[i]) : i \in 1..Len(t)}
Shared == Cardinality(LowerWords(tTitle) \cap LowerWords(iTitle))
Larger == Max(Cardinality(LowerWords(tTitle)), Cardinality(LowerWords(iTitle)))

\* C7: the ratio is the number of distinct shared words over the size of the
\* larger word set; the title adds 5 times the ratio exactly when the ratio
\* is strictly greater than 0.6 (6/10): 4 of 5 adds 4, 3 of 5 adds nothing.
C7_TitleRatio ==
    (tDone /\ tTitle # <<>> /\ iTitle # <<>>) =>
        /\ IF 10 * Shared > 6 * Larger
           THEN tScore[1] * Larger = 5 * Shared * tScore[2] /\ tScore[1] > 0
           ELSE tScore[1] = 0
        /\ (Shared = 4 /\ Larger = 5) => tScore[1] = 4 * tScore[2]
        /\ (Shared = 3 /\ Larger = 5) => tScore[1] = 0

C7_Witness ==
    /\ tDone /\ Shared = 3 /\ Larger = 5 /\ tScore[1] = 0
    /\ Len(tTitle) = 3 /\ Len(iTitle) = 5

(***************************************************************************)
(* SpecDisplay: one call of find_match_by_display_text on a new matcher    *)
(***************************************************************************)

MaxPhraseWords == 4
MaxGroups == 2

DisplayLibrary ==
    << Entry("K1", <<"a", "X">>, <<>>, <<"2019">>,
             <<Creator(<<"Smith">>, <<>>)>>, <<"Advances", "in", "Biology">>),
       Entry("K5", <<>>, <<>>, <<"2020">>,
             <<Creator(<<>>, <<"World", "Health", "Organization">>)>>, <<"Health">>),
       Entry("K6", <<>>, <<>>, <<"2020">>,
             <<Creator(<<"Jones">>, <<>>)>>, <<"Chemistry">>),
       Entry("K7", <<>>, <<>>, <<"May", "2019">>,
             <<Creator(<<"Health">>, <<>>)>>, <<"Health", "Health", "Smith">>),
       Entry("K8", <<>>, <<>>, <<"2019">>,
             <<Creator(<<"Jones">>, <<>>), Creator(<<>>, <<"Goldsmith">>)>>, <<>>) >>

\* one group followed by its year: every author phrase of up to
\* MaxPhraseWords words
PhraseWords == {"Smith", "und", "y", ",", "and", "J"}
PhraseTexts == {Append(ph, "2019") : ph \in SeqsUpTo(PhraseWords, MaxPhraseWords)}

\* texts of several groups
GroupPool ==
    { <<"Smith", "&", "Jones", ",", "2019">>,
      <<"World", "Health", "Organization", "2020">>,
      <<"See", "also", "Jones", "Et", "Al.", "2020">>,
      <<"Seeger", "2019">>,
      <<"Jones">>,
      <<"2019">>,
      <<>> }

RECURSIVE JoinGroups(_)
JoinGroups(gs) ==
    IF gs = <<>> THEN <<>>
    ELSE IF Len(gs) = 1 THEN gs[1]
    ELSE gs[1] \o <<";">> \o JoinGroups(Tail(gs))

GroupTexts ==
    LET joined == {JoinGroups(gs) : gs \in SeqsUpTo(GroupPool, MaxGroups) \ {<<>>}}
    IN joined \cup {<<"(">> \o t \o <<")">> : t \in joined}

DisplayTexts == PhraseTexts \cup GroupTexts

DisplayInit ==
    /\ items = DisplayLibrary
    /\ cache = <<>> /\ calls = 0 /\ scans = 0 /\ first = <<>>
    /\ lastCi = NoCi /\ lastRes = 0 /\ lastRaised = FALSE /\ lastHit = FALSE
    /\ lastRepeat = FALSE /\ lastScans = 0
    /\ DisplayIdle
    /\ TitleIdle
    /\ VerifyIdle
    /\ ConvIdle
    /\ MoreIdle

\* matcher.find_match_by_display_text(text)
CallFindMatchByDisplayText(text) ==
    /\ ~dDone
    /\ \E r \in {FindMatchByDisplayText(text, items, cache, scans)} :
          /\ dMatches' = r.matches
          /\ dGroups' = r.groups
          /\ cache' = r.cache
          /\ scans' = r.scans
    /\ dText' = text
    /\ dDone' = TRUE
    /\ UNCHANGED <<items, calls, first, lastCi, lastRes, lastRaised, lastHit,
                   lastRepeat, lastScans, titleVars, verifyVars, convVars, moreVars>>

DisplayNext == \E text \in DisplayTexts : CallFindMatchByDisplayText(text)

SpecDisplay == DisplayInit /\ [][DisplayNext]_vars

\* the groups of the last call that were not skipped
Parsed == {g \in 1..Len(dGroups) : ~dGroups[g].skipped}

\* a connector word stands at place i of s, between two words
ConnectorAt(s, i) ==
    /\ 1 < i /\ i < Len(s)
    /\ \E c \in 1..Len(Connectors) : LowerAtom(s[i]) = Connectors[c]

EarlyConnectors(s) ==
    {c \in 1..Len(Connectors) :
        \E i \in 2..3 :
            /\ i < Len(s)
            /\ LowerAtom(s[i]) = Connectors[c]
            /\ \A j \in 2..(i - 1) : LowerAtom(s[j]) # Connectors[c]}

FirstPlace(s, c) == CHOOSE i \in 2..3 :
    /\ LowerAtom(s[i]) = Connectors[c]
    /\ \A j \in 2..(i - 1) : LowerAtom(s[j]) # Connectors[c]

Least(S) == CHOOSE x \in S : \A y \in S : x <= y

Semicolons(s) == Cardinality({i \in 1..Len(s) : s[i] = ";"})

\* the entries of the groups that found one, in the order of the groups
RECURSIVE FoundInOrder(_, _)
FoundInOrder(groups, g) ==
    IF g > Len(groups) THEN <<>>
    ELSE (IF groups[g].res # 0 THEN <<groups[g].res>> ELSE <<>>)
            \o FoundInOrder(groups, g + 1)

\* C9: the result holds at most one entry per group, in the order of the
\* groups; a group without a year, with an empty author portion or without a
\* match adds nothing; the empty text gives the empty sequence.
C9_OnePerGroup ==
    dDone =>
        /\ dText = <<>> => dMatches = <<>>
        /\ Len(dMatches) <= Semicolons(StripBrackets(dText)) + 1
        /\ \A k \in 1..Len(dMatches) : dMatches[k] \in 1..Len(items)
        /\ dText # <<>> => Len(dGroups) = Semicolons(StripBrackets(dText)) + 1
        /\ dMatches = FoundInOrder(dGroups, 1)
        /\ \A g \in 1..Len(dGroups) :
            (\/ \A i \in 1..Len(dGroups[g].part) : ~IsYear(dGroups[g].part[i])
             \/ IsYear(dGroups[g].part[1])) => dGroups[g].res = 0

\* a group without a year, then a group that matches: one entry
C9_Witness ==
    /\ dDone /\ Len(dGroups) = 2 /\ Len(dMatches) = 1
    /\ dGroups[1].part = <<"Jones">> /\ dGroups[1].res = 0
    /\ dGroups[2].res = dMatches[1] /\ dMatches[1] # 0

(***************************************************************************)
(* SpecVerify: verify_document_integrity on one tree                       *)
(***************************************************************************)

MaxMarkers == 5
MaxSdts == 1

VerifyInit ==
    /\ vMarkers \in SeqsUpTo({"begin", "separate", "end"}, MaxMarkers)
    /\ vBody \in BOOLEAN
    /\ vSdts \in SeqsUpTo(BOOLEAN, MaxSdts)
    /\ vIssues = <<>>
    /\ vDone = FALSE
    /\ MatcherIdle
    /\ TitleIdle
    /\ DisplayIdle
    /\ ConvIdle
    /\ MoreIdle

\* verify_document_integrity(root)
Verify ==
    /\ ~vDone
    /\ vIssues' = VerifyDocumentIntegrity(vMarkers, vBody, vSdts)
    /\ vDone' = TRUE
    /\ UNCHANGED <<vMarkers, vBody, vSdts, matcherVars, titleVars, displayVars, convVars, moreVars>>

VerifyNext == Verify

SpecVerify == VerifyInit /\ [][VerifyNext]_vars

CountOf(s, n, x) == Cardinality({i \in 1..n : s[i] = x})

\* the open-field counter after the first n markers
Open(n) == CountOf(vMarkers, n, "begin") - CountOf(vMarkers, n, "end")

IssuesOfKind(kind) == {i \in 1..Len(vIssues) : vIssues[i].kind = kind}

\* C10: when the markers never drive the counter below zero and leave it at
\* k > 0, the call returns exactly one unclosed-field issue, which carries k,
\* and no unmatched-end issue; one 'begin' and no 'end' gives exactly one
\* unclosed-field issue.
C10_UnclosedReported ==
    (/\ vDone
     /\ \A n \in 1..Len(vMarkers) : Open(n) >= 0
     /\ Open(Len(vMarkers)) > 0) =>
        /\ Cardinality(IssuesOfKind("unclosed")) = 1
        /\ \A i \in IssuesOfKind("unclosed") : vIssues[i].count = Open(Len(vMarkers))
        /\ IssuesOfKind("unmatched end") = {}

C10_Witness ==
    /\ vDone
    /\ vMarkers = <<"begin", "separate", "end", "begin", "begin">>
    /\ Cardinality(IssuesOfKind("unclosed")) = 1
    /\ \A i \in IssuesOfKind("unclosed") : vIssues[i].count = 2

\* the first marker that makes the counter negative; 0 if there is none
FirstNegative ==
    IF \E n \in 1..Len(vMarkers) : Open(n) < 0
    THEN CHOOSE n \in 1..Len(vMarkers) : Open(n) < 0 /\ \A k \in 1..(n - 1) : Open(k) >= 0
    ELSE 0

\* C11: the first 'end' that makes the counter negative gives exactly one
\* unmatched-end issue and ends the walk: the markers after it are not
\* counted, so no unclosed-field issue is returned, whatever 'begin' markers
\* follow, and no second unmatched-end issue either.
C11_UnmatchedEndStops ==
    (vDone /\ FirstNegative # 0) =>
        /\ vMarkers[FirstNegative] = "end"
        /\ Cardinality(IssuesOfKind("unmatched end")) = 1
        /\ IssuesOfKind("unclosed") = {}
        /\ vIssues[1] = UnmatchedEnd

C11_Witness ==
    /\ vDone
    /\ vMarkers = <<"begin", "end", "end", "begin", "begin">>
    /\ FirstNegative = 3
    /\ Cardinality(IssuesOfKind("unmatched end")) = 1
    /\ IssuesOfKind("unclosed") = {}


(***************************************************************************)
(* run_conversion: the steps of one call                                   *)
(***************************************************************************)

\* lines 849-860: the matcher is made and the index fetched; a failure is
\* logged and the counters are returned at once
Connect ==
    /\ pc = "connect"
    /\ IF remoteOk
       THEN items' = remote /\ pc' = "extract"
       ELSE items' = items /\ pc' = "returned"
    /\ UNCHANGED <<cache, calls, scans, first, lastCi, lastRes, lastRaised, lastHit,
                   lastRepeat, lastScans, titleVars, displayVars, verifyVars,
                   remote, remoteOk, archive, partAt, files, work, stats, err, out,
                   outParts, moreVars>>

\* lines 868-877: every member name is tested, then the archive is extracted
ExtractArchive ==
    /\ pc = "extract"
    /\ IF \E member \in archive.members : Unsafe(member)
       THEN /\ pc' = "raised" /\ err' = "ValueError"
            /\ UNCHANGED <<files, work, partAt>>
       ELSE /\ files' = {ExtractedName(member) : member \in archive.members}
            /\ work' = archive.parts
            /\ pc' = "process" /\ partAt' = 1
            /\ UNCHANGED err
    /\ UNCHANGED <<matcherVars, titleVars, displayVars, verifyVars,
                   remote, remoteOk, archive, stats, out, outParts, moreVars>>

\* lines 879-884: the next of the three parts, if the package holds it
ProcessPart ==
    /\ pc = "process"
    /\ \E xml_name \in {PartNames[partAt]} :
          IF PartPath(xml_name) \notin files
          THEN /\ pc' = IF partAt = Len(PartNames) THEN "repack" ELSE "process"
               /\ partAt' = IF partAt = Len(PartNames) THEN partAt ELSE partAt + 1
               /\ UNCHANGED <<cache, scans, work, stats, err>>
          ELSE \E r \in {ProcessXmlFile(xml_name, work[xml_name], items, stats,
                                        cache, scans)} :
                  /\ cache' = r.cache
                  /\ scans' = r.scans
                  /\ stats' = [converted |-> r.converted, skipped |-> r.skipped,
                               unmatched |-> r.unmatched]
                  /\ work' = [work EXCEPT ![xml_name] = r.nodes]
                  /\ IF r.raised
                     THEN pc' = "raised" /\ err' = "AttributeError" /\ UNCHANGED partAt
                     ELSE /\ pc' = IF partAt = Len(PartNames) THEN "repack" ELSE "process"
                          /\ partAt' = IF partAt = Len(PartNames) THEN partAt ELSE partAt + 1
                          /\ UNCHANGED err
    /\ UNCHANGED <<items, calls, first, lastCi, lastRes, lastRaised, lastHit,
                   lastRepeat, lastScans, titleVars, displayVars, verifyVars,
                   remote, remoteOk, archive, files, out, outParts, moreVars>>

\* lines 887-901: the output archive is written, os.walk handing over the
\* files in an order of its own, and the counters are returned
Repack ==
    /\ pc = "repack"
    /\ \E order \in Orders(Walked(files)) : out' = Repacked(files, order)
    /\ outParts' = work
    /\ pc' = "done"
    /\ UNCHANGED <<matcherVars, titleVars, displayVars, verifyVars,
                   remote, remoteOk, archive, partAt, files, work, stats, err, moreVars>>

ConvNext == Connect \/ ExtractArchive \/ ProcessPart \/ Repack

\* a package: whether it holds [Content_Types].xml at its root, its other
\* members beside the parts, and the nodes of its parts
Package(ct, extras, body, footnotes, endnotes) ==
    LET ps == [xml_name \in DOMAIN NoParts |->
                 IF xml_name = "document.xml" THEN body
                 ELSE IF xml_name = "footnotes.xml" THEN footnotes ELSE endnotes]
    IN [members |-> (IF ct THEN {ContentTypes} ELSE {}) \cup extras
                    \cup {PartPath(xml_name) : xml_name \in {n \in DOMAIN ps : ps[n] # Absent}},
        parts |-> ps]

ConvStart ==
    /\ MatcherIdle
    /\ TitleIdle
    /\ DisplayIdle
    /\ VerifyIdle
    /\ remote = DisplayLibrary
    /\ remoteOk \in BOOLEAN
    /\ pc = "connect" /\ partAt = 0 /\ files = {} /\ work = NoParts
    /\ stats = NoStats /\ err = "" /\ out = <<>> /\ outParts = NoParts
    /\ MoreIdle

(***************************************************************************)
(* SpecConv: run_conversion on documents                                   *)
(***************************************************************************)

MaxBodyNodes == 2

Smith2019 == Ci({"authors", "year"}, <<>>, <<Author(<<"Smith">>)>>, "2019", <<>>, <<>>)
Nobody2020 == Ci({"authors", "year"}, <<>>, <<Author(<<"Nobody">>)>>, "2020", <<>>, <<>>)
NoFamily2019 == Ci({"authors", "year"}, <<>>, <<Author(None)>>, "2019", <<>>, <<>>)

\* a record of the payload matches
PhSmith == Placeholder(<<Smith2019>>, <<"(", "Smith", "2019", ")">>)
\* no record matches, the display text does
PhFallback == Placeholder(<<Nobody2020>>, <<"(", "Jones", "2020", ")">>)
\* neither matches
PhUnmatched == Placeholder(<<Nobody2020>>, <<"(", "Nobody", "2020", ")">>)
\* the payload was "LastName": null
PhNoFamily == Placeholder(<<NoFamily2019>>, <<"(", "Smith", "2019", ")">>)
\* no payload could be decoded
PhNoPayload == Placeholder(<<>>, <<"World", "Health", "Organization", "2020">>)
\* neither payload nor display text
PhEmpty == Placeholder(<<>>, <<>>)
\* two records, one of them without a match
PhTwo == Placeholder(<<Nobody2020, Smith2019>>, <<>>)
\* a record matches one entry, the display text another
PhMixed == Placeholder(<<Smith2019>>, <<"(", "Jones", "2020", ")">>)

BodyPool ==
    {PhSmith, PhFallback, PhUnmatched, PhNoFamily,
     Plain("citavibib"), Plain("zoterobib"), Plain("sectPr")}

EscapingMember == <<ParentDir, <<"evil.xml">>>>

ConvPackages ==
    { Package(shell[1], shell[2], body, footnotes, endnotes) :
        shell \in {<<TRUE, {}>>, <<FALSE, {}>>, <<TRUE, {EscapingMember}>>},
        body \in SeqsUpTo(BodyPool, MaxBodyNodes),
        footnotes \in {Absent, <<PhNoPayload>>},
        endnotes \in {Absent, <<PhEmpty, PhTwo>>, <<PhMixed>>} }

ConvInit == ConvStart /\ archive \in ConvPackages

SpecConv == ConvInit /\ [][ConvNext]_vars

(***************************************************************************)
(* SpecArchive: run_conversion on packages of many shapes                  *)
(***************************************************************************)

MaxExtras == 2

SiblingMember == <<ParentDir, <<"docx_contents", "_evil">>, <<"x.xml">>>>
AbsoluteMember == << <<>>, <<"etc">>, <<"x.xml">> >>

ExtraPool ==
    { <<WordDir, ContentTypesName>>,
      <<WordDir, ParentDir, <<"styles.xml">>>>,
      << <<"docProps">>, <<"app.xml">> >>,
      EscapingMember, SiblingMember, AbsoluteMember }

ArchivePackages ==
    { Package(ct, extras, body, footnotes, Absent) :
        ct \in BOOLEAN,
        extras \in {e \in SUBSET ExtraPool : Cardinality(e) <= MaxExtras},
        body \in {<<PhSmith>>, <<PhUnmatched, Plain("p")>>},
        footnotes \in {Absent, <<PhNoPayload>>} }

ArchiveInit == ConvStart /\ archive \in ArchivePackages

SpecArchive == ArchiveInit /\ [][ConvNext]_vars

\* the placeholders of the parts of a package, part by part
NodesOfKind(ps, kind) ==
    [xml_name \in DOMAIN ps |-> SelectSeq(ps[xml_name], LAMBDA n : n.kind = kind)]

CountOfKind(ps, kind) ==
    Len(NodesOfKind(ps, kind)["document.xml"])
    + Len(NodesOfKind(ps, kind)["footnotes.xml"])
    + Len(NodesOfKind(ps, kind)["endnotes.xml"])

\* a placeholder resolves to at least one entry of the library: one of its
\* records does, or none does and its display text does
Resolves(ph, lib) ==
    \/ \E i \in 1..Len(ph.infos) : Resolve(ph.infos[i], lib).res # 0
    \/ /\ ph.display # <<>>
       /\ FindMatchByDisplayText(ph.display, lib, <<>>, 0).matches # <<>>

ResolvedCount(ps, lib) ==
    LET phs == NodesOfKind(ps, "citavi")
        n(xml_name) == Cardinality({i \in 1..Len(phs[xml_name]) : Resolves(phs[xml_name][i], lib)})
    IN n("document.xml") + n("footnotes.xml") + n("endnotes.xml")

\* the call has come to its end on a package it accepted
Finished == pc \in {"done", "raised"} /\ err # "ValueError"

\* C1: for a document with N placeholders of which M resolve, the converted
\* package holds M citation fields and N-M placeholders, and the counters
\* returned are converted = M and skipped = N-M.
C1_AsStated ==
    Finished =>
        LET N == CountOfKind(archive.parts, "citavi")
            M == ResolvedCount(archive.parts, remote)
        IN /\ pc = "done"
           /\ CountOfKind(outParts, "zotero") = M
           /\ CountOfKind(outParts, "citavi") = N - M
           /\ stats.converted = M
           /\ stats.skipped = N - M

\* a member whose normalized path lies outside the extraction directory
Escapes(member) ==
    LET member_path == RealPath(Join(ExtractDir, member), <<>>)
    IN ~StartsWith(member_path, RealPath(ExtractDir, <<>>))

\* C2: when a member of the archive resolves outside the extraction root, a
\* sibling directory whose name begins with the root's name included, the call
\* fails with the unsafe-path error before any member is extracted and before
\* the output archive is written.
C2_AsStated ==
    (pc \notin {"connect", "extract", "returned"}
     /\ \E member \in archive.members : Escapes(member))
    => (pc = "raised" /\ err = "ValueError" /\ files = {} /\ out = <<>>)

ContentTypesPlaces == {i \in 1..Len(out) : out[i].arcname = ContentTypes}

\* C3 as stated: in every output archive the content-types member is the
\* first member, stored, and there once.
C3_AsStated ==
    pc = "done" =>
        /\ out # <<>>
        /\ out[1] = Member(ContentTypes, ZipStored)
        /\ Cardinality(ContentTypesPlaces) = 1

\* C3: when the package holds a content-types declaration at its root, the
\* output archive holds it first, stored, and once; when it holds none, the
\* output archive holds none.  Every other file of the package follows,
\* deflated.
C3_ContentTypesFirst ==
    pc = "done" =>
        /\ IF ContentTypes \in archive.members
           THEN out # <<>> /\ out[1] = Member(ContentTypes, ZipStored)
                /\ ContentTypesPlaces = {1}
           ELSE ContentTypesPlaces = {}
        /\ \A i \in 1..Len(out) :
              i \notin ContentTypesPlaces => out[i].compress_type = ZipDeflated
        /\ {out[i].arcname : i \in 1..Len(out)} = files
        /\ Len(out) = Cardinality(files)

C3_Witness ==
    /\ pc = "done"
    /\ ContentTypes \in archive.members
    /\ \E i \in 2..Len(out) : out[i].arcname = <<WordDir, ContentTypesName>>
    /\ \E i \in 2..Len(out) : out[i].arcname = PartPath("footnotes.xml")

(***************************************************************************)
(* SpecBibl: calls of add_zotero_bibl_at_end on one root                   *)
(***************************************************************************)

MaxBiblNodes == 3
MaxBiblCalls == 3

\* lines 674-676 left out: the field is added whatever the root holds
AddZoteroBiblEveryTime(has_body, nodes) ==
    IF ~has_body THEN [inserted |-> FALSE, nodes |-> nodes]
    ELSE IF KindPos(nodes, "sectPr", 1) # 0
    THEN LET at == KindPos(nodes, "sectPr", 1)
         IN [inserted |-> TRUE,
             nodes |-> SubSeq(nodes, 1, at - 1) \o <<Plain("zoterobib")>>
                       \o SubSeq(nodes, at, Len(nodes))]
    ELSE [inserted |-> TRUE, nodes |-> Append(nodes, Plain("zoterobib"))]

\* add_zotero_bibl_at_end(root, style_uri) (lines 666-691): what it returns
\* and the nodes of the root afterwards; a root without a w:body is left
\* alone (lines 669-671)
AddZoteroBibl(has_body, nodes) ==
    IF ~has_body THEN [inserted |-> FALSE, nodes |-> nodes]
    ELSE [inserted |-> AddZoteroBiblAtEnd(nodes) # nodes,
          nodes |-> AddZoteroBiblAtEnd(nodes)]

BaseIdle == MatcherIdle /\ TitleIdle /\ DisplayIdle /\ VerifyIdle /\ ConvIdle

BiblPool ==
    {Plain("p"), Plain("sectPr"), Plain("zoterobib"),
     ZoteroField(<<1>>, <<"(", "Smith", "2019", ")">>)}

BiblInit ==
    /\ BaseIdle
    /\ DecodeIdle
    /\ BatchIdle
    /\ LogIdle
    /\ CheckIdle
    /\ TailIdle
    /\ bBody \in BOOLEAN
    /\ bFirst \in SeqsUpTo(BiblPool, MaxBiblNodes)
    /\ bNodes = bFirst
    /\ bPrev = bFirst
    /\ bReturns = <<>>

\* add_zotero_bibl_at_end(root, style_uri)
CallAddZoteroBibl ==
    /\ Len(bReturns) < MaxBiblCalls
    /\ \E r \in {AddZoteroBibl(bBody, bNodes)} :
          /\ bNodes' = r.nodes
          /\ bReturns' = Append(bReturns, r.inserted)
    /\ bPrev' = bNodes
    /\ UNCHANGED <<bBody, bFirst, matcherVars, titleVars, displayVars, verifyVars, convVars,
                   decodeVars, batchVars, logVars, checkVars, tailVars>>

BiblNext == CallAddZoteroBibl

SpecBibl == BiblInit /\ [][BiblNext]_vars

BiblFields(nodes) == Len(SelectSeq(nodes, LAMBDA n : n.kind = "zoterobib"))

\* C12: after a call that returned true every later call returns false and
\* leaves the tree as it was, so the calls insert at most one bibliography
\* field; a call on a root that holds a bibliography field already returns
\* false and changes nothing.
C12_BiblIdempotent ==
    /\ \A i, j \in 1..Len(bReturns) : (i < j /\ bReturns[i]) => ~bReturns[j]
    /\ (bReturns # <<>> /\ ~bReturns[Len(bReturns)]) => bNodes = bPrev
    /\ (bReturns # <<>> /\ BiblFields(bPrev) > 0) => (~bReturns[Len(bReturns)] /\ bNodes = bPrev)
    /\ BiblFields(bNodes) <= BiblFields(bFirst) + 1
    /\ BiblFields(bNodes) = BiblFields(bFirst)
                            + Cardinality({i \in 1..Len(bReturns) : bReturns[i]})
    /\ BiblFields(bFirst) > 0 => bNodes = bFirst

C12_Witness ==
    /\ Len(bReturns) = 3
    /\ bReturns = <<TRUE, FALSE, FALSE>>
    /\ bFirst = <<Plain("p"), Plain("sectPr")>>
    /\ bNodes = <<Plain("p"), Plain("zoterobib"), Plain("sectPr")>>

(***************************************************************************)
(* SpecDecode: decode_citavi_payload on one placeholder                    *)
(***************************************************************************)

MaxRuns == 2
MaxChunks == 3

\* json.dumps(v), with the separator `sep` between the elements of an array
RECURSIVE Serialise(_, _)
RECURSIVE SerialiseElements(_, _)
Serialise(v, sep) ==
    IF v.t = "number" THEN [i \in 1..v.n |-> "1"]
    ELSE IF v.t = "object" THEN <<"{", "}">>
    ELSE <<"[">> \o SerialiseElements(v.elems, sep) \o <<"]">>

SerialiseElements(elems, sep) ==
    IF elems = <<>> THEN <<>>
    ELSE IF Len(elems) = 1 THEN Serialise(elems[1], sep)
    ELSE Serialise(elems[1], sep) \o sep \o SerialiseElements(Tail(elems), sep)

\* base64.b64encode of a text: two bytes make three digits, a last single
\* byte makes two digits and "="
RECURSIVE B64Encode(_)
B64Encode(text) ==
    IF text = <<>> THEN <<>>
    ELSE IF Len(text) = 1
    THEN LET n == ByteOf(text[1]) * 2
         IN <<Digits[(n \div 4) + 1], Digits[(n % 4) + 1], "=">>
    ELSE LET n == ByteOf(text[1]) * 8 + ByteOf(text[2])
         IN <<Digits[(n \div 16) + 1], Digits[((n \div 4) % 4) + 1], Digits[(n % 4) + 1]>>
            \o B64Encode(SubSeq(text, 3, Len(text)))

JsonPool ==
    { JNum(1), JNum(2), JObj, JArr(<<>>), JArr(<<JNum(1)>>), JArr(<<JNum(1), JNum(1)>>),
      JArr(<<JArr(<<>>)>>), JArr(<<JObj>>) }

Separators == { <<",">>, <<",", " ">> }

\* a format tag and the white space after it
TagPool == { <<>>, <<"A", "D", "D", " ">>, <<"A", "D", "D", "\t">> }

\* the ways to cut a text into up to n runs
RECURSIVE RunsOf(_, _)
RunsOf(text, n) ==
    IF n = 1 \/ Len(text) <= 1 THEN {<<text>>}
    ELSE {<<text>>} \cup
         UNION { {<<SubSeq(text, 1, k)>> \o rest : rest \in RunsOf(SubSeq(text, k + 1, Len(text)), n - 1)} :
                 k \in 1..(Len(text) - 1) }

\* texts of any make
ChunkPool == { <<"B", "A", "=">>, <<"A">>, <<" ">>, <<"\t">>, <<"{">>, <<"}">>, <<"=">> }
ChunkTexts == {Concat(chunks) : chunks \in SeqsUpTo(ChunkPool, MaxChunks)}

DecodeInit ==
    /\ BaseIdle
    /\ BiblIdle
    /\ BatchIdle
    /\ LogIdle
    /\ CheckIdle
    /\ TailIdle
    /\ eDone = FALSE
    /\ eResult = Decoded(JNone, "none")
    /\ \/ /\ eEncoded = TRUE
          /\ eContent = TRUE
          /\ eValue \in JsonPool
          /\ \E sep \in Separators, tag \in TagPool :
                eRuns \in RunsOf(tag \o B64Encode(Serialise(eValue, sep)), MaxRuns)
       \/ /\ eEncoded = FALSE
          /\ eContent \in BOOLEAN
          /\ eValue = JNone
          /\ \E text \in ChunkTexts : eRuns \in RunsOf(text, MaxRuns) \cup {<<>>, <<text, <<>>>>}

\* decode_citavi_payload(sdt)
Decode ==
    /\ ~eDone
    /\ eResult' = DecodeCitaviPayload(eContent, eRuns)
    /\ eDone' = TRUE
    /\ UNCHANGED <<eContent, eRuns, eEncoded, eValue, matcherVars, titleVars, displayVars,
                   verifyVars, convVars, biblVars, batchVars, logVars, checkVars, tailVars>>

DecodeNext == Decode

SpecDecode == DecodeInit /\ [][DecodeNext]_vars

\* C13: when the instruction text is the Base64 encoding of the JSON text of
\* a value v, cut into runs in any way, with or without a leading format tag,
\* decode_citavi_payload returns v.
C13_AsStated ==
    (eDone /\ eEncoded) => (eResult.exc = NoError /\ eResult.val = eValue)

\* the text after the first white-space separated token of a text
AfterFirstToken(text) ==
    IF \E i \in 1..Len(text) : IsWhitespace(text[i]) THEN SplitLast(text) ELSE text

\* the steps (a), (b), (c) on an instruction text, the first that succeeds
\* giving the result
InOrder(text) ==
    LET a == TryCandidate(StripWhitespace(text))
        b == TryCandidate(StripWhitespace(AfterFirstToken(text)))
        c == JsonLoads(BraceMatch(text))
    IN IF StripWhitespace(text) # <<>> /\ a.ok THEN a.val
       ELSE IF StripWhitespace(AfterFirstToken(text)) # <<>> /\ b.ok THEN b.val
       ELSE IF BraceMatch(text) # <<>> /\ c.ok THEN c.val
       ELSE JNone

\* C14: decode_citavi_payload never raises; it returns what the first of (a)
\* Base64 and JSON on the whole trimmed text, (b) Base64 and JSON on the text
\* after its first white-space separated token, (c) JSON on the
\* brace-delimited part of the text, makes of the text, and None when none
\* of them succeeds, when there is no instruction text or no content.
C14_AsStated ==
    eDone =>
        /\ eResult.exc = NoError
        /\ eResult.val = IF ~eContent \/ InstrParts(eRuns) = <<>> THEN JNone
                         ELSE InOrder(Concat(InstrParts(eRuns)))

(***************************************************************************)
(* ConversionWorker.run and BatchConversionWorker.run                      *)
(***************************************************************************)

\* lines 879-884 of run_conversion: the parts from part i on, with the
\* counters and the matcher in st
RECURSIVE ConvertParts(_, _, _, _, _)
ConvertParts(fs, ps, i, its, st) ==
    IF i > Len(PartNames) \/ st.raised THEN st
    ELSE IF PartPath(PartNames[i]) \notin fs THEN ConvertParts(fs, ps, i + 1, its, st)
    ELSE Only({ ConvertParts(fs, ps, i + 1, its, next) :
                next \in { [converted |-> r.converted, skipped |-> r.skipped,
                            unmatched |-> r.unmatched, raised |-> r.raised,
                            cache |-> r.cache, scans |-> r.scans] :
                           r \in {ProcessXmlFile(PartNames[i], ps[PartNames[i]], its,
                                                 st, st.cache, st.scans)} } })

ConversionRaised(exc) ==
    [raised |-> TRUE, exc |-> exc, connected |-> TRUE, stats |-> NoStats]

\* run_conversion (lines 840-901) as one call: a matcher of its own is made
\* and the index fetched (lines 851-852); when the remote library does not
\* answer, the counters are returned as they are (lines 854-860); an archive
\* that is no zip file, an unsafe member and an exception of
\* process_xml_file leave the call
RunConversion(doc, lib, answers) ==
    IF ~answers
    THEN [raised |-> FALSE, exc |-> "", connected |-> FALSE, stats |-> NoStats]
    ELSE IF ~doc.readable THEN ConversionRaised("BadZipFile")
    ELSE IF \E member \in doc.package.members : Unsafe(member)
    THEN ConversionRaised("ValueError")
    ELSE Only({ IF st.raised THEN ConversionRaised("AttributeError")
                ELSE [raised |-> FALSE, exc |-> "", connected |-> TRUE,
                      stats |-> [converted |-> st.converted, skipped |-> st.skipped,
                                 unmatched |-> st.unmatched]] :
                st \in {ConvertParts({ExtractedName(member) : member \in doc.package.members},
                                     doc.package.parts, 1, lib,
                                     [converted |-> 0, skipped |-> 0, unmatched |-> <<>>,
                                      raised |-> FALSE, cache |-> <<>>, scans |-> 0])} })

\* lines 1191-1233: what one document adds to all_stats.  r is what
\* run_conversion made of it, verify_raises says whether verify_conversion,
\* if it is called, raises
FileCounted(all_stats, r, verify, verify_raises) ==
    IF r.raised THEN [all_stats EXCEPT !.failed = @ + 1]
    ELSE LET added == [all_stats EXCEPT !.total_converted = @ + r.stats.converted,
                                        !.total_skipped = @ + r.stats.skipped,
                                        !.total_unmatched = @ + Len(r.stats.unmatched)]
         IN IF verify /\ verify_raises THEN [added EXCEPT !.failed = @ + 1]
            ELSE [added EXCEPT !.successful = @ + 1]

Outcome(r, verify, verify_raises) ==
    [raised |-> r.raised \/ (verify /\ verify_raises),
     exc |-> IF r.raised THEN r.exc
             ELSE IF verify /\ verify_raises THEN "verification" ELSE "",
     connected |-> r.connected,
     converted |-> r.stats.converted,
     skipped |-> r.stats.skipped]

Document(readable, package) == [readable |-> readable, package |-> package]

\* lines 1168-1183: the batch makes a matcher and fetches the index; a
\* failure here ends the batch (lines 1246-1255)
BatchConnect ==
    /\ kMode = "batch" /\ kPc = "connect"
    /\ kMatchers' = kMatchers + 1
    /\ kFetches' = kFetches + 1
    /\ \E answers \in BOOLEAN : kPc' = IF answers THEN "files" ELSE "aborted"
    /\ kIdx' = 1
    /\ UNCHANGED <<kMode, kDocs, kVerify, kAllStats, kOutcomes, kProgress,
                   matcherVars, titleVars, displayVars, verifyVars, convVars,
                   biblVars, decodeVars, logVars, checkVars, tailVars>>

\* lines 1185-1233: one document of the batch; its position is notified
\* first (line 1186)
BatchFile ==
    /\ kMode = "batch" /\ kPc = "files" /\ kIdx <= Len(kDocs)
    /\ \E answers \in BOOLEAN, verify_raises \in BOOLEAN :
          \E r \in {RunConversion(kDocs[kIdx], remote, answers)} :
             /\ (verify_raises => (kVerify /\ ~r.raised))
             /\ kAllStats' = FileCounted(kAllStats, r, kVerify, verify_raises)
             /\ kOutcomes' = Append(kOutcomes, Outcome(r, kVerify, verify_raises))
    /\ kMatchers' = kMatchers + 1
    /\ kFetches' = kFetches + 1
    /\ kProgress' = Append(kProgress, [position |-> kIdx, total |-> Len(kDocs)])
    /\ kIdx' = kIdx + 1
    /\ UNCHANGED <<kMode, kDocs, kVerify, kPc,
                   matcherVars, titleVars, displayVars, verifyVars, convVars,
                   biblVars, decodeVars, logVars, checkVars, tailVars>>

\* lines 1235-1244: the end of the batch
BatchFinish ==
    /\ kMode = "batch" /\ kPc = "files" /\ kIdx > Len(kDocs)
    /\ kPc' = "done"
    /\ UNCHANGED <<kMode, kDocs, kVerify, kIdx, kMatchers, kFetches, kAllStats, kOutcomes,
                   kProgress,
                   matcherVars, titleVars, displayVars, verifyVars, convVars,
                   biblVars, decodeVars, logVars, checkVars, tailVars>>

\* ConversionWorker.run (lines 1062-1138): one document
SingleRun ==
    /\ kMode = "single" /\ kPc = "connect"
    /\ \E answers \in BOOLEAN, verify_raises \in BOOLEAN :
          \E r \in {RunConversion(kDocs[1], remote, answers)} :
             /\ (verify_raises => (kVerify /\ ~r.raised))
             /\ kAllStats' = FileCounted(kAllStats, r, kVerify, verify_raises)
             /\ kOutcomes' = Append(kOutcomes, Outcome(r, kVerify, verify_raises))
    /\ kMatchers' = kMatchers + 1
    /\ kFetches' = kFetches + 1
    /\ kIdx' = 2
    /\ kPc' = "done"
    /\ UNCHANGED <<kMode, kDocs, kVerify, kProgress,
                   matcherVars, titleVars, displayVars, verifyVars, convVars,
                   biblVars, decodeVars, logVars, checkVars, tailVars>>

BatchNext == BatchConnect \/ BatchFile \/ BatchFinish \/ SingleRun

(***************************************************************************)
(* SpecBatch: a single conversion or a batch of documents                  *)
(***************************************************************************)

MaxBatch == 2

DocumentPool ==
    { Document(TRUE, Package(TRUE, {}, <<PhSmith, PhUnmatched>>, Absent, Absent)),
      Document(TRUE, Package(TRUE, {}, <<PhUnmatched>>, <<PhNoPayload>>, Absent)),
      Document(TRUE, Package(TRUE, {EscapingMember}, <<PhSmith>>, Absent, Absent)),
      Document(FALSE, Package(FALSE, {}, <<>>, Absent, Absent)),
      Document(TRUE, Package(TRUE, {}, <<PhNoFamily>>, Absent, Absent)) }

BatchInit ==
    /\ MatcherIdle /\ TitleIdle /\ DisplayIdle /\ VerifyIdle
    /\ BiblIdle /\ DecodeIdle /\ LogIdle /\ CheckIdle /\ TailIdle
    /\ remote = DisplayLibrary /\ remoteOk = TRUE
    /\ archive = [members |-> {}, parts |-> NoParts]
    /\ pc = "idle" /\ partAt = 0 /\ files = {} /\ work = NoParts
    /\ stats = NoStats /\ err = "" /\ out = <<>> /\ outParts = NoParts
    /\ kVerify \in BOOLEAN
    /\ \/ kMode = "batch" /\ kDocs \in SeqsUpTo(DocumentPool, MaxBatch) \ {<<>>}
       \/ kMode = "single" /\ kDocs \in {<<d>> : d \in DocumentPool}
    /\ kPc = "connect" /\ kIdx = 0 /\ kMatchers = 0 /\ kFetches = 0
    /\ kAllStats = NoAllStats /\ kOutcomes = <<>> /\ kProgress = <<>>

SpecBatch == BatchInit /\ [][BatchNext]_vars

\* C15: the index is fetched exactly once in a single conversion and exactly
\* once in a batch of k documents, which share one matcher, one index and one
\* cache.
C15_AsStated ==
    kPc = "done" => (kFetches = 1 /\ kMatchers = 1)

\* the documents of the batch that failed
FailedDocuments == {i \in 1..Len(kOutcomes) : kOutcomes[i].raised \/ ~kOutcomes[i].connected}

\* C20: a document that fails (unsafe member, unreadable archive, failure of
\* the remote library during its conversion, verification error) does not keep
\* the documents after it from being processed, and it is counted as failed
\* and not as successful.
C20_AsStated ==
    (kMode = "batch" /\ kPc = "done") =>
        /\ Len(kOutcomes) = Len(kDocs)
        /\ kAllStats.failed = Cardinality(FailedDocuments)
        /\ kAllStats.successful = Len(kDocs) - Cardinality(FailedDocuments)

(***************************************************************************)
(* The texts of failures (lines 854-860, 1128-1138, 1229-1233, 1246-1255)  *)
(***************************************************************************)

MaxKeyLen == 5
MaxTextParts == 2

KeyChars == {"k", "q"}

\* `old in text`
Contains(text, old) ==
    \E i \in 1..(Len(text) - Len(old) + 1) : SubSeq(text, i, i + Len(old) - 1) = old

\* text.replace(old, new) for a non-empty old: the occurrences of old from
\* the left, none overlapping the one before
RECURSIVE Replace(_, _, _)
Replace(text, old, new) ==
    IF Len(text) < Len(old) THEN text
    ELSE IF SubSeq(text, 1, Len(old)) = old
    THEN new \o Replace(SubSeq(text, Len(old) + 1, Len(text)), old, new)
    ELSE <<Head(text)>> \o Replace(Tail(text), old, new)

\* api_key[:4] + "****"
Masked(api_key) ==
    SubSeq(api_key, 1, IF Len(api_key) < 4 THEN Len(api_key) ELSE 4) \o <<"*", "*", "*", "*">>

\* lines 856-858 (and 1130-1135, 1230-1231, 1247-1252): the credential is
\* replaced when it is longer than four characters
Sanitize(text, api_key) ==
    IF api_key # <<>> /\ Len(api_key) > 4
    THEN Replace(text, api_key, Masked(api_key))
    ELSE text

\* traceback.format_exc(): the frames and, last, the text of the exception
FormatExc(text) == <<"Traceback">> \o text

ErrorLine(text) == <<"ERROR">> \o text

\* the texts an exception can carry: the credential, as in the URL of a
\* request, and other characters, in any order
RECURSIVE TextsOf(_, _)
TextsOf(pieces, n) ==
    IF n = 0 THEN {<<>>}
    ELSE {<<>>} \cup {piece \o rest : piece \in pieces, rest \in TextsOf(pieces, n - 1)}

ExceptionTexts(api_key) ==
    TextsOf({api_key} \cup {<<c>> : c \in KeyChars} \cup {<<"HTTP">>}, MaxTextParts)

\* lines 854-860: run_conversion could not connect
ConnectFails ==
    /\ lPc = "ready"
    /\ \E text \in ExceptionTexts(lKey) :
          lLog' = Append(lLog, <<"ERROR", "Could not connect to Zotero">>
                               \o Sanitize(text, lKey))
    /\ lPc' = "returned"
    /\ UNCHANGED <<lKey, lSignal, matcherVars, titleVars, displayVars, verifyVars, convVars,
                   biblVars, decodeVars, batchVars, checkVars, tailVars>>

\* lines 1128-1138: an exception ends ConversionWorker.run
WorkerFails ==
    /\ lPc = "ready"
    /\ \E text \in ExceptionTexts(lKey) :
          /\ lLog' = lLog \o <<ErrorLine(Sanitize(text, lKey)),
                                Sanitize(FormatExc(text), lKey)>>
          /\ lSignal' = Append(lSignal, Sanitize(text, lKey))
    /\ lPc' = "error"
    /\ UNCHANGED <<lKey, matcherVars, titleVars, displayVars, verifyVars, convVars,
                   biblVars, decodeVars, batchVars, checkVars, tailVars>>

\* lines 1229-1233: an exception ends one document of a batch
BatchFileFails ==
    /\ lPc = "ready"
    /\ \E text \in ExceptionTexts(lKey) :
          lLog' = Append(lLog, ErrorLine(Sanitize(text, lKey)))
    /\ lPc' = "next file"
    /\ UNCHANGED <<lKey, lSignal, matcherVars, titleVars, displayVars, verifyVars, convVars,
                   biblVars, decodeVars, batchVars, checkVars, tailVars>>

\* lines 1246-1255: an exception ends BatchConversionWorker.run
BatchFails ==
    /\ lPc = "ready"
    /\ \E text \in ExceptionTexts(lKey) :
          /\ lLog' = lLog \o <<ErrorLine(Sanitize(text, lKey)),
                                Sanitize(FormatExc(text), lKey)>>
          /\ lSignal' = Append(lSignal, Sanitize(text, lKey))
    /\ lPc' = "batch error"
    /\ UNCHANGED <<lKey, matcherVars, titleVars, displayVars, verifyVars, convVars,
                   biblVars, decodeVars, batchVars, checkVars, tailVars>>

LogNext == ConnectFails \/ WorkerFails \/ BatchFileFails \/ BatchFails

(***************************************************************************)
(* SpecLog: one failure with one credential                                *)
(***************************************************************************)

LogInit ==
    /\ BaseIdle
    /\ BiblIdle /\ DecodeIdle /\ BatchIdle /\ CheckIdle /\ TailIdle
    /\ lKey \in SeqsUpTo(KeyChars, MaxKeyLen)
    /\ lPc = "ready" /\ lLog = <<>> /\ lSignal = <<>>

SpecLog == LogInit /\ [][LogNext]_vars

\* C16: whatever the length of a credential that is not empty, no message
\* logged and no text sent with the error signal for a failure of a single or
\* batch conversion contains the credential.
C16_AsStated ==
    lKey # <<>> =>
        /\ \A i \in 1..Len(lLog) : ~Contains(lLog[i], lKey)
        /\ \A i \in 1..Len(lSignal) : ~Contains(lSignal[i], lKey)

(***************************************************************************)
(* The bibliography of the body after run_conversion (SpecConv)            *)
(***************************************************************************)

BodyCount(ps, kind) == Len(NodesOfKind(ps, kind)["document.xml"])

\* the body of the output holds a bibliography field more than the input's
BibliographyAppended == BodyCount(outParts, "zoterobib") > BodyCount(archive.parts, "zoterobib")

\* C17: after run_conversion the body has gained a bibliography field exactly
\* when a placeholder of any part (body, footnotes, endnotes) was converted
\* and the body held no bibliography field before.
C17_AsStated ==
    pc = "done" =>
        (BibliographyAppended <=>
            (stats.converted > 0 /\ BodyCount(archive.parts, "zoterobib") = 0))

\* C18: after run_conversion the body of the output holds no node of a Citavi
\* bibliography, with or without placeholders in the body.
C18_AsStated ==
    pc = "done" => BodyCount(outParts, "citavibib") = 0

(***************************************************************************)
(* verify_conversion                                                       *)
(***************************************************************************)

\* count_fields_in_docx (lines 922-950) over the parts from part i on: the
\* placeholders, or the instrText nodes that hold "ZOTERO_ITEM", of the parts
\* the package holds
RECURSIVE CountFieldsFrom(_, _, _)
CountFieldsFrom(package, field_type, i) ==
    IF i > Len(PartNames) THEN 0
    ELSE IF PartPath(PartNames[i]) \notin {ExtractedName(member) : member \in package.members}
    THEN CountFieldsFrom(package, field_type, i + 1)
    ELSE Len(SelectSeq(package.parts[PartNames[i]], LAMBDA n : n.kind = field_type))
         + CountFieldsFrom(package, field_type, i + 1)

CountFieldsInDocx(package, field_type) == CountFieldsFrom(package, field_type, 1)

\* the mutant: success whatever the original held
ClassifiedAnyOriginal(results) ==
    IF results.converted_citavi_remaining = 0 /\ results.converted_zotero_count > 0
    THEN [results EXCEPT !.success = TRUE, !.outcome = "success"]
    ELSE IF results.converted_zotero_count > 0
    THEN [results EXCEPT !.outcome = "partial"]
    ELSE [results EXCEPT !.outcome = "failure"]

\* lines 964-972: success and the outcome that is logged
Classified(results) ==
    IF results.original_citavi_count = 0
    THEN [results EXCEPT !.outcome = "no citations in original"]
    ELSE IF results.converted_citavi_remaining = 0 /\ results.converted_zotero_count > 0
    THEN [results EXCEPT !.success = TRUE, !.outcome = "success"]
    ELSE IF results.converted_zotero_count > 0
    THEN [results EXCEPT !.outcome = "partial"]
    ELSE [results EXCEPT !.outcome = "failure"]

\* verify_conversion (lines 906-974) on two packages without unsafe members
VerifyConversion(original, converted) ==
    Classified([NoResults EXCEPT
                  !.original_citavi_count = CountFieldsInDocx(original, "citavi"),
                  !.converted_citavi_remaining = CountFieldsInDocx(converted, "citavi"),
                  !.converted_zotero_count = CountFieldsInDocx(converted, "zotero")])

\* one call; an unsafe member of either package raises ValueError (lines
\* 927-930)
CallVerifyConversion ==
    /\ cPc = "call"
    /\ IF \E member \in cOriginal.members \cup cConverted.members : Unsafe(member)
       THEN cPc' = "raised" /\ UNCHANGED cResults
       ELSE cPc' = "returned" /\ cResults' = VerifyConversion(cOriginal, cConverted)
    /\ UNCHANGED <<cOriginal, cConverted, matcherVars, titleVars, displayVars, verifyVars,
                   convVars, biblVars, decodeVars, batchVars, logVars, tailVars>>

CheckNext == CallVerifyConversion

(***************************************************************************)
(* SpecCheck: verify_conversion on pairs of packages                       *)
(***************************************************************************)

MaxCheckNodes == 2

CheckPool == {PhSmith, Plain("zotero"), Plain("zoterobib")}

CheckPackages ==
    { Package(TRUE, extras, body, footnotes, Absent) :
        extras \in {{}, {EscapingMember}},
        body \in SeqsUpTo(CheckPool, MaxCheckNodes),
        footnotes \in {Absent, <<PhUnmatched>>, <<Plain("zotero")>>} }

CheckInit ==
    /\ BaseIdle
    /\ BiblIdle /\ DecodeIdle /\ BatchIdle /\ LogIdle /\ TailIdle
    /\ cOriginal \in CheckPackages
    /\ cConverted \in CheckPackages
    /\ cResults = NoResults /\ cPc = "call"

SpecCheck == CheckInit /\ [][CheckNext]_vars

Legacy(package) == CountOfKind(package.parts, "citavi")
Target(package) == CountOfKind(package.parts, "zotero")

\* C19 as stated: success exactly when no placeholder is left in the converted
\* package and it holds a citation field, whatever the original held.
C19_AsStated ==
    cPc = "returned" =>
        (cResults.success <=> (Legacy(cConverted) = 0 /\ Target(cConverted) > 0))

\* C19: verify_conversion returns success exactly when the original holds a
\* placeholder, none is left in the converted package and the converted
\* package holds a citation field; with a placeholder in the original, the
\* outcome is otherwise partial (fields and placeholders) or failure (no
\* field).
C19_SuccessWhenOriginalCited ==
    cPc = "returned" =>
        /\ cResults.success <=> /\ Legacy(cOriginal) > 0
                                /\ Legacy(cConverted) = 0
                                /\ Target(cConverted) > 0
        /\ cResults.success <=> cResults.outcome = "success"
        /\ Legacy(cOriginal) > 0 =>
              /\ cResults.outcome = "partial" <=>
                    (Target(cConverted) > 0 /\ Legacy(cConverted) > 0)
              /\ cResults.outcome = "failure" <=> Target(cConverted) = 0

C19_Witness ==
    /\ cPc = "returned"
    /\ cResults.success
    /\ Legacy(cOriginal) = 2
    /\ Target(cConverted) = 2

(***************************************************************************)
(* The placeholders of a document, one after the other (SpecConv)          *)
(***************************************************************************)

\* C21: whatever the payload and the display text of a placeholder, it ends
\* converted or skipped and the placeholders and parts after it are
\* processed: no failure of one placeholder ends the run.
C21_AsStated ==
    Finished =>
        /\ pc = "done"
        /\ stats.converted + stats.skipped = CountOfKind(archive.parts, "citavi")

\* the placeholders of a part of the input, and what stands in their places
\* in the output (no part of the pools holds a citation field beforehand)
PlaceholdersOf(xml_name) == NodesOfKind(archive.parts, "citavi")[xml_name]
InPlaceOf(xml_name) ==
    SelectSeq(outParts[xml_name], LAMBDA n : n.kind \in {"citavi", "zotero"})

UnresolvedRecords(ph, lib) ==
    {i \in 1..Len(ph.infos) : Resolve(ph.infos[i], lib).res = 0}

\* no record of the placeholder resolves, and its display text resolves to
\* no entry either
DisplayUnresolved(ph, lib) ==
    /\ UnresolvedRecords(ph, lib) = 1..Len(ph.infos)
    /\ ph.display # <<>>
    /\ FindMatchByDisplayText(ph.display, lib, <<>>, 0).matches = <<>>

Reported(descriptor) == \E i \in 1..Len(stats.unmatched) : stats.unmatched[i] = descriptor

\* C22: a record or a display text of a placeholder that resolves to no entry
\* has a descriptor in stats.unmatched and leaves the placeholder in place,
\* skipped; and every placeholder that was skipped has a descriptor in
\* stats.unmatched.
C22_AsStated ==
    pc = "done" =>
        \A xml_name \in DOMAIN NoParts :
            \A j \in 1..Len(PlaceholdersOf(xml_name)) :
                LET ph == PlaceholdersOf(xml_name)[j]
                    left == InPlaceOf(xml_name)[j].kind = "citavi"
                IN /\ \A i \in UnresolvedRecords(ph, remote) :
                         Reported(Descriptor(ph.infos[i])) /\ left
                   /\ DisplayUnresolved(ph, remote) => (left /\ stats.unmatched # <<>>)
                   /\ left => \/ \E i \in 1..Len(ph.infos) : Reported(Descriptor(ph.infos[i]))
                              \/ ph.infos = <<>> /\ stats.unmatched # <<>>

(***************************************************************************)
(* The end of process_xml_file (lines 832-837) and the repacking           *)
(***************************************************************************)

Tree(markers, body, sdts) == [markers |-> markers, body |-> body, sdts |-> sdts]

Verified(xml_name, tree) ==
    [op |-> "verify", part |-> xml_name, tree |-> tree,
     issues |-> VerifyDocumentIntegrity(tree.markers, tree.body, tree.sdts)]
Written(xml_name, tree) ==
    [op |-> "write", part |-> xml_name, tree |-> tree, issues |-> <<>>]
ArchiveWritten == [op |-> "archive", part |-> "", tree |-> NoTree, issues |-> <<>>]

\* the mutant: a tree with issues is not written
EndOfPartUnlessIssues(events, xml_name, tree, modified) ==
    IF modified
    THEN IF Verified(xml_name, tree).issues = <<>>
         THEN events \o <<Verified(xml_name, tree), Written(xml_name, tree)>>
         ELSE Append(events, Verified(xml_name, tree))
    ELSE events

\* lines 832-837: a modified tree is verified, the issues returned are
\* dropped, and the tree is written
EndOfPart(events, xml_name, tree, modified) ==
    IF modified
    THEN events \o <<Verified(xml_name, tree), Written(xml_name, tree)>>
    ELSE events

\* the end of process_xml_file for the part the run is at
FinishPart ==
    /\ wAt \in 1..Len(PartNames)
    /\ wEvents' = EndOfPart(wEvents, PartNames[wAt], wTrees[PartNames[wAt]],
                            wModified[PartNames[wAt]])
    /\ wAt' = wAt + 1
    /\ UNCHANGED <<wTrees, wModified, matcherVars, titleVars, displayVars, verifyVars,
                   convVars, biblVars, decodeVars, batchVars, logVars, checkVars, extractVars, fieldVars, cancelVars, fetchVars>>

\* lines 887-899: the output archive is written
WriteArchive ==
    /\ wAt = Len(PartNames) + 1
    /\ wEvents' = Append(wEvents, ArchiveWritten)
    /\ wAt' = wAt + 1
    /\ UNCHANGED <<wTrees, wModified, matcherVars, titleVars, displayVars, verifyVars,
                   convVars, biblVars, decodeVars, batchVars, logVars, checkVars, extractVars, fieldVars, cancelVars, fetchVars>>

WriteNext == FinishPart \/ WriteArchive

(***************************************************************************)
(* SpecWrite: the parts of one document are finished and repacked          *)
(***************************************************************************)

MarkerPool == {<<>>, <<"begin", "separate", "end">>, <<"end", "begin">>, <<"begin">>}

BodyTrees == {Tree(markers, body, sdts) :
                markers \in MarkerPool, body \in BOOLEAN, sdts \in {<<>>, <<FALSE>>}}
\* the root of the notes is no w:document and holds no w:body
NoteTrees == {tree \in BodyTrees : ~tree.body}

WriteInit ==
    /\ BaseIdle
    /\ EarlierIdle /\ ExtractIdle /\ FieldIdle /\ CancelIdle /\ FetchIdle
    /\ wTrees \in {[xml_name \in DOMAIN NoParts |->
                      IF xml_name = "document.xml" THEN body
                      ELSE IF xml_name = "footnotes.xml" THEN notes
                      ELSE Tree(<<>>, FALSE, <<>>)] :
                   body \in BodyTrees, notes \in NoteTrees}
    /\ wModified \in [DOMAIN NoParts -> BOOLEAN]
    /\ wAt = 1 /\ wEvents = <<>>

SpecWrite == WriteInit /\ [][WriteNext]_vars

EventsOf(op, xml_name) ==
    {i \in 1..Len(wEvents) : wEvents[i].op = op /\ wEvents[i].part = xml_name}

\* C23: a part is written only just after verify_document_integrity has run
\* on the tree that is written; every modified part is written, whatever
\* issues were found, and the archive is written at the end.
C23_VerifiedBeforeWritten ==
    /\ \A i \in 1..Len(wEvents) :
          wEvents[i].op = "write" =>
             /\ i > 1
             /\ wEvents[i - 1] = Verified(wEvents[i].part, wEvents[i].tree)
             /\ wEvents[i].tree = wTrees[wEvents[i].part]
    /\ \A i \in 1..Len(PartNames) :
          (wAt > i /\ wModified[PartNames[i]]) => EventsOf("write", PartNames[i]) # {}
    /\ wAt > Len(PartNames) + 1 => wEvents[Len(wEvents)] = ArchiveWritten

C23_Witness ==
    /\ wAt > Len(PartNames) + 1
    /\ wEvents[Len(wEvents)] = ArchiveWritten
    /\ \E i \in EventsOf("verify", "document.xml") :
          /\ \E k \in 1..Len(wEvents[i].issues) : wEvents[i].issues[k] = UnmatchedEnd
          /\ wEvents[i + 1].op = "write"
    /\ \E i \in EventsOf("verify", "footnotes.xml") :
          /\ \E k \in 1..Len(wEvents[i].issues) : wEvents[i].issues[k].kind = "unclosed"
          /\ wEvents[i + 1].op = "write"

(***************************************************************************)
(* extract_citation_info_from_citavi                                       *)
(*                                                                         *)
(* A JSON object is a record of the values of its keys, Missing for a key  *)
(* it does not hold and Null for null.  Of the alternative keys of a field *)
(* ("Title", "title", "TitleString", ...) the first one stands for all.    *)
(***************************************************************************)

\* `key in entry and entry[key]`
Truthy(value) == value.kind \in {"str", "list"} /\ value.v # <<>>

AuthorDict(last_name) == [shape |-> "dict", name |-> last_name]
AuthorString(text) == [shape |-> "str", name |-> Str(text)]
AuthorNumber == [shape |-> "number", name |-> Missing]

\* the position of the first "," of a text, from i on; 0 if there is none
RECURSIVE CommaPos(_, _)
CommaPos(text, i) ==
    IF i > Len(text) THEN 0 ELSE IF text[i] = "," THEN i ELSE CommaPos(text, i + 1)

\* lines 171-180: the author made of one element of the list; a dictionary
\* gives the value of its name key as it is, "" when it has no such key
AuthorOf(a) ==
    IF a.shape = "dict"
    THEN Author(IF a.name.kind = "missing" THEN <<>>
                ELSE IF a.name.kind = "null" THEN None ELSE a.name.v)
    ELSE IF CommaPos(a.name.v, 1) # 0
    THEN Author(Strip(SubSeq(a.name.v, 1, CommaPos(a.name.v, 1) - 1)))
    ELSE Author(Strip(a.name.v))

\* lines 167-181: the authors of an entry; an element that is neither a
\* dictionary nor a string is passed over
RECURSIVE AuthorsOf(_)
AuthorsOf(author_list) ==
    IF author_list = <<>> THEN <<>>
    ELSE (IF Head(author_list).shape \in {"dict", "str"}
          THEN <<AuthorOf(Head(author_list))>> ELSE <<>>)
         \o AuthorsOf(Tail(author_list))

\* extract_from_entry (lines 158-207): the record made of an entry, NoCi
\* for None
ExtractFromEntry(entry) ==
    LET authors == IF Truthy(entry.Authors) /\ entry.Authors.kind = "list"
                   THEN AuthorsOf(entry.Authors.v) ELSE <<>>
        y == IF Truthy(entry.Year) THEN YearPos(entry.Year.v, 1) ELSE 0
        has == (IF Truthy(entry.Title) THEN {"title"} ELSE {})
               \cup (IF authors # <<>> THEN {"authors"} ELSE {})
               \cup (IF y # 0 THEN {"year"} ELSE {})
               \cup (IF Truthy(entry.Doi) THEN {"doi"} ELSE {})
               \cup (IF Truthy(entry.Isbn) THEN {"isbn"} ELSE {})
    IN Ci(has,
          IF "title" \in has THEN Strip(entry.Title.v) ELSE <<>>,
          authors,
          IF y # 0 THEN entry.Year.v[y] ELSE "",
          IF "doi" \in has THEN Strip(entry.Doi.v) ELSE <<>>,
          IF "isbn" \in has THEN Strip(entry.Isbn.v) ELSE <<>>)

IsDict(item) == item.dict

\* lines 233-237 (and 225-229): the records of the dictionaries of a list,
\* without those of which nothing could be extracted
RECURSIVE Extracted(_)
Extracted(entries) ==
    IF entries = <<>> THEN <<>>
    ELSE (IF IsDict(Head(entries)) /\ ExtractFromEntry(Head(entries)) # NoCi
          THEN <<ExtractFromEntry(Head(entries))>> ELSE <<>>)
         \o Extracted(Tail(entries))

\* extract_citation_info_from_citavi (lines 157-238) on a dictionary that
\* holds a list under "Entries" (entries), fields of its own (self) and a
\* list under another key (nested)
ExtractCitationInfo(payload) ==
    IF Truthy(payload.entries)
    THEN Extracted(payload.entries.v)
    ELSE IF ExtractFromEntry(payload.self) # NoCi
    THEN <<ExtractFromEntry(payload.self)>>
    ELSE IF payload.nested.kind = "list" THEN Extracted(payload.nested.v)
    ELSE <<>>

\* lines 409-438 with a library that answers no record: the records that
\* find_match_by_display_text hands to find_match for one parsed group
GroupRecords(p) ==
    IF p.skipped THEN <<>>
    ELSE [c \in 1..Len(p.candidates) |-> AuthorYearCi(p.candidates[c], p.year)]
         \o (IF Len(p.primary) > 2 /\ StripInitial(p.author_portion) # p.primary
             THEN <<AuthorYearCi(StripInitial(p.author_portion), p.year)>> ELSE <<>>)
         \o (IF Len(p.primary) > 2 THEN <<TitleYearCi(p.author_portion, p.year)>> ELSE <<>>)

RECURSIVE GroupsRecords(_)
GroupsRecords(parts) ==
    IF parts = <<>> THEN <<>>
    ELSE GroupRecords(ParseGroup(Head(parts))) \o GroupsRecords(Tail(parts))

DisplayRecords(display_text) ==
    IF display_text = <<>> THEN <<>>
    ELSE GroupsRecords(SplitGroups(StripBrackets(display_text), <<>>))

\* lines 774-795 of process_xml_file for one placeholder, with a library
\* that answers no record: the records of the payload are handed to
\* find_match, then those of the display text
PassRecords ==
    /\ xPc = "placeholder"
    /\ \E citation_infos \in {ExtractCitationInfo(xPayload)} :
          /\ xInfos' = citation_infos
          /\ xPassed' = citation_infos \o DisplayRecords(xDisplay)
    /\ xPc' = "passed"
    /\ UNCHANGED <<xPayload, xDisplay, matcherVars, titleVars, displayVars, verifyVars,
                   convVars, biblVars, decodeVars, batchVars, logVars, checkVars, writeVars, fieldVars, cancelVars, fetchVars>>

ExtractNext == PassRecords

(***************************************************************************)
(* SpecExtract: the records of one placeholder                             *)
(***************************************************************************)

MaxAuthors == 1

AuthorShapes ==
    {AuthorDict(Missing), AuthorDict(Null), AuthorDict(Str(<<"Smith">>)),
     AuthorString(<<>>), AuthorString(<<"Smith", " ", ",", "J">>), AuthorNumber}

\* an element of a list that is no object
NoDict == [NoFields EXCEPT !.dict = FALSE]

EntryShapes ==
    {JsonEntry(title, authors, year, doi, isbn) :
        title \in {Missing, Str(<<" ">>), Str(<<"Advances">>)},
        authors \in {Missing} \cup {List(l) : l \in SeqsUpTo(AuthorShapes, MaxAuthors)},
        year \in {Missing, Str(<<"2019">>), Str(<<"n.d.">>)},
        doi \in {Missing, Str(<<"a", "X">>)},
        isbn \in {Missing, Str(<<"1-2">>)}}

PayloadShapes ==
    {[entries |-> List(<<entry>>), self |-> NoFields, nested |-> Missing] :
        entry \in EntryShapes}
    \cup {[entries |-> List(<<NoDict, entry>>), self |-> NoFields, nested |-> Missing] :
            entry \in EntryShapes}
    \cup {[entries |-> Missing, self |-> entry, nested |-> List(<<entry>>)] :
            entry \in EntryShapes}
    \cup {[entries |-> List(<<>>), self |-> NoFields, nested |-> List(<<NoDict, entry>>)] :
            entry \in EntryShapes}

DisplayShapes ==
    {<<>>, <<"(", "Smith", "&", "Jones", ",", "2019", ")">>,
     <<"World", "Health", "Organization", "2020">>,
     <<"See", "also", "Jones", "Et", "Al.", "2020", ";", "J", "Smith", "2019">>}

ExtractInit ==
    /\ BaseIdle
    /\ EarlierIdle /\ WriteIdle /\ FieldIdle /\ CancelIdle /\ FetchIdle
    /\ xPayload \in PayloadShapes
    /\ xDisplay \in DisplayShapes
    /\ xInfos = <<>> /\ xPassed = <<>> /\ xPc = "placeholder"

SpecExtract == ExtractInit /\ [][ExtractNext]_vars

\* a record carries enough to be matched: a title, or a year and an author,
\* or a DOI or an ISBN
EnoughSignal(ci) ==
    \/ "title" \in ci.has /\ ci.title # <<>>
    \/ "year" \in ci.has /\ "authors" \in ci.has /\ ci.authors # <<>>
    \/ "doi" \in ci.has
    \/ "isbn" \in ci.has

EmptyFamily(ci) ==
    \E a \in 1..Len(ci.authors) : ci.authors[a].family \in {<<>>, None}

\* C24: every record handed to find_match, from the payload or from the
\* display text, carries enough to be matched, and none of its authors has
\* an empty family name.
C24_AsStated ==
    \A i \in 1..Len(xPassed) : EnoughSignal(xPassed[i]) /\ ~EmptyFamily(xPassed[i])

(***************************************************************************)
(* create_zotero_field_xml and replace_sdt_with_zotero_field               *)
(*                                                                         *)
(* A run or another element of a body is a record: a w:fldChar with its    *)
(* fldCharType, a w:instrText or a w:t with its text, a placeholder w:sdt  *)
(* with the fldCharType of the markers of its content, or the w:sectPr.    *)
(* A text is a sequence of characters; the words of the instruction that   *)
(* no chunk boundary can split stand for one character each.               *)
(***************************************************************************)

El(kind, type, text, content) ==
    [kind |-> kind, type |-> type, text |-> text, content |-> content]
FldChar(type) == El("fldChar", type, <<>>, <<>>)
InstrText(text) == El("instrText", "", text, <<>>)
DisplayRun(text) == El("t", "", text, <<>>)
Sdt(content) == El("sdt", "", <<>>, content)
SectPr == El("sectPr", "", <<>>, <<>>)

\* chunk_size (line 548), scaled down
ChunkSize == 3

\* line 547: f" ADDIN ZOTERO_ITEM CSL_CITATION {citation_json_str} "
ItemInstruction(citation_json_str) ==
    <<" ", "ADDIN", " ", "ZOTERO_ITEM", " ", "CSL_CITATION", " ">>
    \o citation_json_str \o <<" ">>

\* the mutant: the chunks overlap by one character
RECURSIVE ChunksOverlapping(_, _)
ChunksOverlapping(instr_text, i) ==
    IF i > Len(instr_text) THEN <<>>
    ELSE <<SubSeq(instr_text, i,
                  IF i + ChunkSize - 1 < Len(instr_text) THEN i + ChunkSize - 1
                  ELSE Len(instr_text))>>
         \o ChunksOverlapping(instr_text, i + ChunkSize - 1)

\* line 549: [instr_text[i:i+chunk_size] for i in range(0, len(instr_text),
\* chunk_size)], from the character at i on
RECURSIVE Chunks(_, _)
Chunks(instr_text, i) ==
    IF i > Len(instr_text) THEN <<>>
    ELSE <<SubSeq(instr_text, i,
                  IF i + ChunkSize - 1 < Len(instr_text) THEN i + ChunkSize - 1
                  ELSE Len(instr_text))>>
         \o Chunks(instr_text, i + ChunkSize)

\* create_zotero_field_xml (lines 538-574): the runs returned
CreateZoteroFieldXml(citation_json_str, display_text) ==
    LET chunks == Chunks(ItemInstruction(citation_json_str), 1)
    IN <<FldChar("begin")>>
       \o [c \in 1..Len(chunks) |-> InstrText(chunks[c])]
       \o <<FldChar("separate"), DisplayRun(display_text), FldChar("end")>>

\* create_zotero_field_xml(citation_json_str, display_text)
CreateField ==
    /\ fPc = "create"
    /\ fRuns' = CreateZoteroFieldXml(fJson, fDisplay)
    /\ fPc' = "created"
    /\ UNCHANGED <<fJson, fDisplay, fFirst, fNodes, fIssues, matcherVars, titleVars, displayVars,
                   verifyVars, convVars, biblVars, decodeVars, batchVars, logVars,
                   checkVars, writeVars, extractVars, cancelVars, fetchVars>>

ChunkNext == CreateField

(***************************************************************************)
(* SpecChunk: create_zotero_field_xml on instruction and display texts     *)
(***************************************************************************)

MaxJsonLen == 5

ChunkInit ==
    /\ BaseIdle
    /\ EarlierIdle /\ WriteIdle /\ ExtractIdle /\ CancelIdle /\ FetchIdle
    /\ fJson \in SeqsUpTo({"{", "a"}, MaxJsonLen)
    /\ fDisplay \in {<<>>, <<"(Citation)">>, <<"(", "Smith", "2019", ")">>}
    /\ fRuns = <<>> /\ fFirst = <<>> /\ fNodes = <<>> /\ fIssues = <<>>
    /\ fPc = "create"

SpecChunk == ChunkInit /\ [][ChunkNext]_vars

InstrRuns == {i \in 1..Len(fRuns) : fRuns[i].kind = "instrText"}

RECURSIVE TextOfRuns(_, _)
TextOfRuns(runs, i) ==
    IF i > Len(runs) THEN <<>>
    ELSE (IF runs[i].kind = "instrText" THEN runs[i].text ELSE <<>>) \o TextOfRuns(runs, i + 1)

\* C25: the runs returned are a begin marker, one or more instruction
\* chunks, a separate marker, a run with the display text and an end marker,
\* in this order; every chunk is non-empty and at most chunk_size long, and
\* the chunks together are the instruction text.
C25_FieldRuns ==
    fPc = "created" =>
        LET n == Len(fRuns)
        IN /\ n >= 5
           /\ fRuns[1] = FldChar("begin")
           /\ InstrRuns = 2..(n - 3)
           /\ fRuns[n - 2] = FldChar("separate")
           /\ fRuns[n - 1] = DisplayRun(fDisplay)
           /\ fRuns[n] = FldChar("end")
           /\ \A i \in InstrRuns : Len(fRuns[i].text) \in 1..ChunkSize
           /\ TextOfRuns(fRuns, 1) = ItemInstruction(fJson)

C25_Witness ==
    /\ fPc = "created"
    /\ Cardinality(InstrRuns) = 4
    /\ Len(fRuns[Len(fRuns) - 3].text) = 1
    /\ fDisplay # <<>>

\* create_zotero_bibl_field_xml (lines 601-640): the runs of the paragraph
BiblRuns ==
    <<FldChar("begin"),
      InstrText(<<" ", "ADDIN", " ", "ZOTERO_BIBL", " ", "{}", " ", "CSL_BIBLIOGRAPHY", " ">>),
      FldChar("separate"),
      DisplayRun(<<"{Bibliography will be generated by Zotero}">>),
      FldChar("end")>>

\* the place of the first element for which Test holds; 0 if there is none
ElementPos(nodes, Test(_)) ==
    LET places == {i \in 1..Len(nodes) : Test(nodes[i])}
    IN IF places = {} THEN 0 ELSE CHOOSE i \in places : \A k \in places : i <= k

HoldsBibl(el) == el.kind = "instrText" /\ \E c \in 1..Len(el.text) : el.text[c] = "ZOTERO_BIBL"
IsSectPr(el) == el.kind = "sectPr"

\* the mutant: the last run is not inserted
ReplaceSdtWithoutLastRun(nodes, j, runs) ==
    SubSeq(nodes, 1, j - 1) \o SubSeq(runs, 1, Len(runs) - 1) \o SubSeq(nodes, j + 1, Len(nodes))

\* replace_sdt_with_zotero_field (lines 577-598): the w:sdt at j is removed
\* and the runs stand in its place (in a paragraph of their own when the
\* parent is no paragraph)
ReplaceSdtWithZoteroField(nodes, j, runs) ==
    SubSeq(nodes, 1, j - 1) \o runs \o SubSeq(nodes, j + 1, Len(nodes))

\* add_zotero_bibl_at_end (lines 666-691) on the elements of a body
AddBiblParagraph(nodes) ==
    IF ElementPos(nodes, HoldsBibl) # 0 THEN nodes
    ELSE IF ElementPos(nodes, IsSectPr) # 0
    THEN LET at == ElementPos(nodes, IsSectPr)
         IN SubSeq(nodes, 1, at - 1) \o BiblRuns \o SubSeq(nodes, at, Len(nodes))
    ELSE nodes \o BiblRuns

\* root.iter(w:fldChar): the fldCharType of the markers in document order,
\* those of the content of the placeholders included
RECURSIVE MarkersOf(_)
MarkersOf(nodes) ==
    IF nodes = <<>> THEN <<>>
    ELSE (IF Head(nodes).kind = "fldChar" THEN <<Head(nodes).type>>
          ELSE IF Head(nodes).kind = "sdt" THEN Head(nodes).content
          ELSE <<>>)
         \o MarkersOf(Tail(nodes))

FieldJsons == {<<>>, <<"{", "a", "a", "}">>}

\* lines 804-816: a field is made for a placeholder and put in its place
ReplaceSdt ==
    /\ fPc = "body"
    /\ \E j \in 1..Len(fNodes), citation_json_str \in FieldJsons :
          /\ fNodes[j].kind = "sdt"
          /\ \E runs \in {CreateZoteroFieldXml(citation_json_str, <<"(Citation)">>)} :
                fNodes' = ReplaceSdtWithZoteroField(fNodes, j, runs)
    /\ UNCHANGED <<fJson, fDisplay, fRuns, fFirst, fIssues, fPc, matcherVars, titleVars, displayVars,
                   verifyVars, convVars, biblVars, decodeVars, batchVars, logVars,
                   checkVars, writeVars, extractVars, cancelVars, fetchVars>>

\* lines 826-830: the bibliography is added
AddBibl ==
    /\ fPc = "body"
    /\ fNodes' = AddBiblParagraph(fNodes)
    /\ fNodes' # fNodes
    /\ UNCHANGED <<fJson, fDisplay, fRuns, fFirst, fIssues, fPc, matcherVars, titleVars, displayVars,
                   verifyVars, convVars, biblVars, decodeVars, batchVars, logVars,
                   checkVars, writeVars, extractVars, cancelVars, fetchVars>>

\* lines 832-834: verify_document_integrity on the tree
VerifyTree ==
    /\ fPc = "body"
    /\ fIssues' = VerifyDocumentIntegrity(MarkersOf(fNodes), TRUE, <<>>)
    /\ fPc' = "verified"
    /\ UNCHANGED <<fJson, fDisplay, fRuns, fFirst, fNodes, matcherVars, titleVars, displayVars,
                   verifyVars, convVars, biblVars, decodeVars, batchVars, logVars,
                   checkVars, writeVars, extractVars, cancelVars, fetchVars>>

FieldNext == ReplaceSdt \/ AddBibl \/ VerifyTree

(***************************************************************************)
(* SpecField: the placeholders of a body are replaced in any order         *)
(***************************************************************************)

MaxFieldNodes == 3

FieldPool ==
    {FldChar("begin"), FldChar("end"), SectPr,
     Sdt(<<"begin", "separate", "end">>), Sdt(<<"end", "begin">>)}

FieldInit ==
    /\ BaseIdle
    /\ EarlierIdle /\ WriteIdle /\ ExtractIdle /\ CancelIdle /\ FetchIdle
    /\ fJson = <<>> /\ fDisplay = <<>> /\ fRuns = <<>>
    /\ fFirst \in SeqsUpTo(FieldPool, MaxFieldNodes)
    /\ fNodes = fFirst
    /\ fIssues = <<>> /\ fPc = "body"

SpecField == FieldInit /\ [][FieldNext]_vars

\* the verifier's counter on these markers never is negative and ends at zero
Balanced(markers) ==
    /\ \A n \in 1..Len(markers) :
          CountOf(markers, n, "begin") >= CountOf(markers, n, "end")
    /\ CountOf(markers, Len(markers), "begin") = CountOf(markers, Len(markers), "end")

OutsidePlaceholders(nodes) == SelectSeq(nodes, LAMBDA el : el.kind # "sdt")

WellFormedAtFirst ==
    /\ Balanced(MarkersOf(OutsidePlaceholders(fFirst)))
    /\ \A j \in 1..Len(fFirst) : fFirst[j].kind = "sdt" => Balanced(fFirst[j].content)

\* C27: when the markers outside the placeholders are balanced and the
\* content of each placeholder is balanced, then after any replacements and
\* the adding of the bibliography verify_document_integrity reports neither
\* an unmatched end nor an unclosed field.
C27_BalancePreserved ==
    (fPc = "verified" /\ WellFormedAtFirst) =>
        \A i \in 1..Len(fIssues) : fIssues[i].kind \notin {"unmatched end", "unclosed"}

C27_Witness ==
    /\ fPc = "verified" /\ WellFormedAtFirst
    /\ fIssues = <<>>
    /\ Len(OutsidePlaceholders(fFirst)) = 2
    /\ Len(fFirst) = 3
    /\ \A j \in 1..Len(fNodes) : fNodes[j].kind # "sdt"
    /\ ElementPos(fNodes, HoldsBibl) # 0

(***************************************************************************)
(* CiteMigrateApp._cleanup_worker against a running BatchConversionWorker  *)
(***************************************************************************)

\* the time of wait(5000) (line 1908), in steps of the clock
GraceTicks == 2

\* lines 1185-1186: the loop goes to the next document; nothing is tested
\* before it starts
StartDocument ==
    /\ nWorker = "running" /\ ~nBusy /\ nIdx < nTotal
    /\ nIdx' = nIdx + 1
    /\ nBusy' = TRUE
    /\ nAfter' = IF nRequest = "waiting" THEN nAfter + 1 ELSE nAfter
    /\ UNCHANGED <<nTotal, nWorker, nRequest, nClock, matcherVars, titleVars, displayVars,
                   verifyVars, convVars, biblVars, decodeVars, batchVars, logVars,
                   checkVars, writeVars, extractVars, fieldVars, fetchVars>>

\* lines 1191-1233: the document is done
EndDocument ==
    /\ nWorker = "running" /\ nBusy
    /\ nBusy' = FALSE
    /\ UNCHANGED <<nTotal, nIdx, nWorker, nRequest, nClock, nAfter, matcherVars, titleVars,
                   displayVars, verifyVars, convVars, biblVars, decodeVars, batchVars,
                   logVars, checkVars, writeVars, extractVars, fieldVars, fetchVars>>

\* lines 1235-1244: run returns after the last document
FinishRun ==
    /\ nWorker = "running" /\ ~nBusy /\ nIdx = nTotal
    /\ nWorker' = "finished"
    /\ UNCHANGED <<nTotal, nIdx, nBusy, nRequest, nClock, nAfter, matcherVars, titleVars,
                   displayVars, verifyVars, convVars, biblVars, decodeVars, batchVars,
                   logVars, checkVars, writeVars, extractVars, fieldVars, fetchVars>>

\* lines 1905-1908, from closeEvent: quit() ends the event loop of the
\* thread, which run() never enters, and wait(5000) begins
CleanupWorker ==
    /\ nRequest = "none"
    /\ nRequest' = "waiting"
    /\ nClock' = 0
    /\ UNCHANGED <<nTotal, nIdx, nBusy, nWorker, nAfter, matcherVars, titleVars,
                   displayVars, verifyVars, convVars, biblVars, decodeVars, batchVars,
                   logVars, checkVars, writeVars, extractVars, fieldVars, fetchVars>>

\* time passes in wait(5000)
Tick ==
    /\ nRequest = "waiting" /\ nWorker = "running" /\ nClock < GraceTicks
    /\ nClock' = nClock + 1
    /\ UNCHANGED <<nTotal, nIdx, nBusy, nWorker, nRequest, nAfter, matcherVars, titleVars,
                   displayVars, verifyVars, convVars, biblVars, decodeVars, batchVars,
                   logVars, checkVars, writeVars, extractVars, fieldVars, fetchVars>>

\* line 1908: wait returns True, the thread has finished
WaitReturns ==
    /\ nRequest = "waiting" /\ nWorker = "finished"
    /\ nRequest' = "cleaned"
    /\ UNCHANGED <<nTotal, nIdx, nBusy, nWorker, nClock, nAfter, matcherVars, titleVars,
                   displayVars, verifyVars, convVars, biblVars, decodeVars, batchVars,
                   logVars, checkVars, writeVars, extractVars, fieldVars, fetchVars>>

\* lines 1908-1912: wait returns False after the time, the thread is
\* terminated
Terminate ==
    /\ nRequest = "waiting" /\ nWorker = "running" /\ nClock = GraceTicks
    /\ nWorker' = "terminated"
    /\ nRequest' = "cleaned"
    /\ UNCHANGED <<nTotal, nIdx, nBusy, nClock, nAfter, matcherVars, titleVars,
                   displayVars, verifyVars, convVars, biblVars, decodeVars, batchVars,
                   logVars, checkVars, writeVars, extractVars, fieldVars, fetchVars>>

CancelNext ==
    \/ StartDocument \/ EndDocument \/ FinishRun
    \/ CleanupWorker \/ Tick \/ WaitReturns \/ Terminate

(***************************************************************************)
(* SpecCancel: the window is closed while a batch runs                     *)
(***************************************************************************)

MaxCancelDocs == 4

CancelInit ==
    /\ BaseIdle
    /\ EarlierIdle /\ WriteIdle /\ ExtractIdle /\ FieldIdle /\ FetchIdle
    /\ nTotal \in 1..MaxCancelDocs
    /\ nIdx = 0 /\ nBusy = FALSE /\ nWorker = "running" /\ nRequest = "none"
    /\ nClock = 0 /\ nAfter = 0

SpecCancel == CancelInit /\ [][CancelNext]_vars

\* C26: after the request the worker starts no further document (it tests
\* for the request between documents), and when _cleanup_worker is done the
\* worker has stopped.
C26_AsStated ==
    /\ nAfter = 0
    /\ nRequest = "cleaned" => nWorker \in {"finished", "terminated"}

\* the entries that the records of a placeholder resolve to, in the order of
\* the records, from record i on
RECURSIVE PayloadItems(_, _, _)
PayloadItems(ph, lib, i) ==
    IF i > Len(ph.infos) THEN <<>>
    ELSE (IF Resolve(ph.infos[i], lib).res # 0 THEN <<Resolve(ph.infos[i], lib).res>>
          ELSE <<>>)
         \o PayloadItems(ph, lib, i + 1)

DisplayItems(ph, lib) == FindMatchByDisplayText(ph.display, lib, <<>>, 0).matches

\* what the code keeps, on the runs that no record aborts: a placeholder of
\* which a record matches is converted with the entries of its records alone,
\* and the display text is used only when no record matches
FallbackOnlyWithoutMatch ==
    pc = "done" =>
        \A xml_name \in DOMAIN NoParts :
            \A j \in 1..Len(PlaceholdersOf(xml_name)) :
                LET ph == PlaceholdersOf(xml_name)[j]
                    now == InPlaceOf(xml_name)[j]
                    payload == PayloadItems(ph, remote, 1)
                IN /\ payload # <<>> => (now.kind = "zotero" /\ now.items = payload)
                   /\ (payload = <<>> /\ now.kind = "zotero") =>
                         (ph.display # <<>> /\ now.items = DisplayItems(ph, remote))

MixedConverted ==
    /\ pc = "done"
    /\ PlaceholdersOf("document.xml") = <<PhFallback>>
    /\ InPlaceOf("document.xml")[1].kind = "zotero"
    /\ PlaceholdersOf("endnotes.xml") = <<PhMixed>>
    /\ InPlaceOf("endnotes.xml")[1].items = PayloadItems(PhMixed, remote, 1)
    /\ InPlaceOf("endnotes.xml")[1].items # DisplayItems(PhMixed, remote)
    /\ DisplayItems(PhMixed, remote) # <<>>

\* C28: when the conversion of a document has finished, a placeholder of
\* which a record matches is converted, with the entries of its records
\* alone, though other records have no match; the display text is used only
\* when no record matches and there is a display text, and then the entries
\* are those of the display text alone.
C28_AsStated ==
    Finished =>
        \A xml_name \in DOMAIN NoParts :
            \A j \in 1..Len(PlaceholdersOf(xml_name)) :
                LET ph == PlaceholdersOf(xml_name)[j]
                    payload == PayloadItems(ph, remote, 1)
                IN /\ payload # <<>> =>
                         /\ pc = "done"
                         /\ InPlaceOf(xml_name)[j].kind = "zotero"
                         /\ InPlaceOf(xml_name)[j].items = payload
                   /\ (pc = "done" /\ payload = <<>>
                        /\ InPlaceOf(xml_name)[j].kind = "zotero") =>
                         /\ ph.display # <<>>
                         /\ InPlaceOf(xml_name)[j].items = DisplayItems(ph, remote)

\* the documents for which line 1224 was reached
CountedSuccessful == {i \in 1..Len(kOutcomes) : ~kOutcomes[i].raised}

RECURSIVE SumOver(_, _)
SumOver(f, S) ==
    IF S = {} THEN 0
    ELSE LET i == CHOOSE j \in S : TRUE IN f[i] + SumOver(f, S \ {i})

\* C29: when a batch over k documents has finished, successful + failed = k,
\* total_converted and total_skipped are the sums of the counters of the
\* documents counted as successful, and the positions notified are 1..k in
\* increasing order.
C29_AsStated ==
    (kMode = "batch" /\ kPc = "done") =>
        /\ kAllStats.successful + kAllStats.failed = Len(kDocs)
        /\ kAllStats.successful = Cardinality(CountedSuccessful)
        /\ kAllStats.total_converted =
              SumOver([i \in 1..Len(kOutcomes) |-> kOutcomes[i].converted], CountedSuccessful)
        /\ kAllStats.total_skipped =
              SumOver([i \in 1..Len(kOutcomes) |-> kOutcomes[i].skipped], CountedSuccessful)
        /\ kProgress = [i \in 1..Len(kDocs) |-> [position |-> i, total |-> Len(kDocs)]]

(***************************************************************************)
(* ZoteroMatcher._get_all_items (lines 249-270): the paginated fetch of    *)
(* the index                                                               *)
(***************************************************************************)

\* limit of line 255, scaled
Limit == 2

\* the calls of one matcher
MaxFetchCalls == 4

\* zot.top(start, limit): the entries of the library from offset start on,
\* limit of them at most
Page(library, start, limit) ==
    SubSeq(library, start + 1,
           IF start + limit < Len(library) THEN start + limit ELSE Len(library))

\* variant of the test of line 250: an empty list is fetched again
CachedIfTruthy(all_items) == all_items.fetched /\ all_items.items # <<>>

\* line 250: self._all_items is not None
Cached(all_items) == all_items.fetched

Returned(index, requests, raised) ==
    [index |-> index, requests |-> requests, raised |-> raised]

\* lines 250-255: the call returns the list that is there, or starts the
\* fetch with an empty list
CallGetAllItems ==
    /\ gPc = "idle" /\ Len(gReturns) < MaxFetchCalls
    /\ IF Cached(gAllItems)
       THEN /\ gReturns' = Append(gReturns, Returned(gAllItems.items, 0, FALSE))
            /\ UNCHANGED <<gAllItems, gStart, gPc, gDuring>>
       ELSE /\ gAllItems' = [fetched |-> TRUE, items |-> <<>>]
            /\ gStart' = 0
            /\ gDuring' = 0
            /\ gPc' = "fetching"
            /\ UNCHANGED gReturns
    /\ UNCHANGED <<gRemote, gPages, gRequests, matcherVars, titleVars, displayVars,
                   verifyVars, convVars, biblVars, decodeVars, batchVars, logVars,
                   checkVars, writeVars, extractVars, fieldVars, cancelVars>>

\* lines 256-268: one round of the loop, the request answered
FetchPage ==
    /\ gPc = "fetching"
    /\ \E page \in {Page(gRemote, gStart, Limit)} :
          /\ gRequests' = Append(gRequests, gStart)
          /\ gPages' = Append(gPages, page)
          /\ gAllItems' = [gAllItems EXCEPT !.items = @ \o page]
          /\ gStart' = IF page = <<>> THEN gStart ELSE gStart + Limit
          /\ IF page = <<>> \/ Len(page) < Limit
             THEN /\ gPc' = "idle"
                  /\ gReturns' = Append(gReturns,
                                        Returned(gAllItems.items \o page, gDuring + 1, FALSE))
                  /\ gDuring' = 0
             ELSE /\ gDuring' = gDuring + 1
                  /\ UNCHANGED <<gPc, gReturns>>
    /\ UNCHANGED <<gRemote, matcherVars, titleVars, displayVars,
                   verifyVars, convVars, biblVars, decodeVars, batchVars, logVars,
                   checkVars, writeVars, extractVars, fieldVars, cancelVars>>

\* line 259: the request raises, and the exception leaves the call with the
\* list as far as it was filled
FetchRaises ==
    /\ gPc = "fetching"
    /\ gRequests' = Append(gRequests, gStart)
    /\ gReturns' = Append(gReturns, Returned(<<>>, gDuring + 1, TRUE))
    /\ gDuring' = 0
    /\ gPc' = "idle"
    /\ UNCHANGED <<gRemote, gAllItems, gStart, gPages, matcherVars, titleVars, displayVars,
                   verifyVars, convVars, biblVars, decodeVars, batchVars, logVars,
                   checkVars, writeVars, extractVars, fieldVars, cancelVars>>

FetchNext == CallGetAllItems \/ FetchPage \/ FetchRaises

(***************************************************************************)
(* SpecFetch: calls of _get_all_items on one matcher, against libraries of *)
(* every length up to MaxRemote                                            *)
(***************************************************************************)

MaxRemote == 8

FetchInit ==
    /\ BaseIdle
    /\ EarlierIdle /\ WriteIdle /\ ExtractIdle /\ FieldIdle /\ CancelIdle
    /\ gRemote \in {[i \in 1..n |-> i] : n \in 0..MaxRemote}
    /\ gAllItems = NoIndex /\ gStart = 0 /\ gPages = <<>> /\ gRequests = <<>>
    /\ gPc = "idle" /\ gDuring = 0 /\ gReturns = <<>>

\* a request is answered or raises, and a call that is made goes on
SpecFetch == FetchInit /\ [][FetchNext]_vars /\ WF_vars(FetchPage \/ FetchRaises)

\* the calls that no request made raise
Completed == {c \in 1..Len(gReturns) : ~gReturns[c].raised}

FetchedInPages ==
    \* the offsets are 0, Limit, 2 * Limit, ... and every page is at most Limit long
    /\ \A r \in 1..Len(gRequests) : gRequests[r] = (r - 1) * Limit
    /\ \A p \in 1..Len(gPages) : Len(gPages[p]) <= Limit
    \* no request follows a page that is empty or short
    /\ \A p \in 1..Len(gPages) : p < Len(gRequests) => Len(gPages[p]) = Limit
    \* the index is the pages in order
    /\ gAllItems.items = Concat(gPages)
    \* every call that returns, returns the index
    /\ \A c \in Completed : gReturns[c].index = gAllItems.items
    \* when every request was answered, the fetch ended with an empty or
    \* short page and the index is the library
    /\ (Completed # {} /\ Completed = 1..Len(gReturns)) =>
          /\ gPages # <<>> /\ Len(gPages[Len(gPages)]) < Limit
          /\ gAllItems.items = gRemote
    \* one call at most makes requests, the empty library included
    /\ \A c, d \in 1..Len(gReturns) :
          (c < d /\ gReturns[c].requests > 0) => gReturns[d].requests = 0
    /\ Len(gRequests) <= (Len(gRemote) \div Limit) + 1

\* C30: _get_all_items ends for every library; it requests pages of Limit at
\* the offsets 0, Limit, 2 * Limit, ... and stops at the first page that is
\* empty or short; the index is the pages in order; one call at most makes
\* requests, also when the library is empty, and the calls after it return
\* the same index without a request.
C30_FetchedOnce ==
    /\ []FetchedInPages
    /\ (gPc = "fetching") ~> (gPc = "idle")

C30_Witness ==
    /\ Len(gRemote) = 2 * Limit
    /\ gRequests = <<0, Limit, 2 * Limit>>
    /\ Len(gReturns) = MaxFetchCalls
    /\ Completed = 1..MaxFetchCalls
    /\ gReturns[1].requests = 3 /\ gReturns[2].requests = 0
    /\ gReturns[MaxFetchCalls].index = gRemote

=============================================================================
